---- MODULE Spec2Model ----
(***************************************************************************)
(* The Umami sync engine (UmamiService.syncAllData and what it calls):     *)
(* window planning from the stored watermark, session-id sync from the     *)
(* relational source, analytics sync per website from the API, and the     *)
(* writes to the systemconfigs document.                                   *)
(*                                                                         *)
(* Instants are milliseconds since the epoch, as Date.getTime() gives them.*)
(* A date string (toISOString().split('T')[0]) is modelled by the number   *)
(* of the UTC day it names.                                                *)
(***************************************************************************)
EXTENDS Integers, Sequences, FiniteSets, TLC

\* ------------------------------------------------------------------ bounds
\* Clock advances in one behaviour.
MaxTicks == 1
\* Hours by which one clock advance moves the clock.
TickHours == 13
\* Most sessions the analytics API holds for one website in a run.
MaxRecords == 1
\* External calls (reads, writes, API requests) that fail in one behaviour.
MaxFaults == 2
\* The day and the hour at which the behaviour starts (days since the epoch, UTC).
StartDay == 10
StartHour == 12

\* The pageSize the analytics API reports for the pages of a run.
PageSize == 1
\* Most sessions a server holds for one website, where the paging alone is followed.
MaxCollected == 1100
\* characters of the value of UMAMI_WEBSITE_IDS
MaxEnvLen == 5
\* calls made to DatabaseService
MaxCalls == 4
\* invocations of the handler
MaxInvocations == 3
\* calls made to the Logger
MaxLogCalls == 2

\* ------------------------------------------------------- program constants
SYNC_BUFFER_HOURS == 12
DEFAULT_INITIAL_SYNC_DAYS == 7
\* DEFAULT_CONFIG.API_PAGE_SIZE, the pageSize fetchSessionsPage asks for
API_PAGE_SIZE == 100
\* fetchAllSessions: if (page > 1000) break
PageLimit == 1000

MsPerHour == 60 * 60 * 1000
MsPerDay == 24 * 60 * 60 * 1000

\* A field that a document does not carry (undefined / null).
Absent == 0 - 1
Null == "null"
Undefined == "undefined"

\* this.websiteIds, and apiService.websiteIds: both parse UMAMI_WEBSITE_IDS.
WebsiteIds == <<"w1", "w2">>
WebsiteSet == {WebsiteIds[i] : i \in 1..Len(WebsiteIds)}

\* toISOString().split('T')[0]: the UTC date of an instant.
DateString(t) == t \div MsPerDay

\* ------------------------------------------------------------- environment
\* process.env['INITIAL_SYNC_DAYS']: unset, or a string of digits.
InitialSyncDaysEnv == {"", "0", "1"}

\* parseInt(process.env['INITIAL_SYNC_DAYS'] || '7')
ParseInitialSyncDays(s) ==
    CASE s = ""  -> DEFAULT_INITIAL_SYNC_DAYS
      [] s = "0" -> 0
      [] s = "1" -> 1
      [] s = "7" -> 7

\* The session table of the relational source, ordered by created_at: a row of
\* a user on a configured website, a row of a user on a website that is not
\* configured, a later row of the first user, and a row of nobody the store knows.
SessionTable ==
    << [session_id |-> "s1", created_at |-> (StartDay - 1) * MsPerDay,
        distinct_id |-> "U1", website_id |-> "w1"],
       [session_id |-> "s2", created_at |-> StartDay * MsPerDay,
        distinct_id |-> "u2", website_id |-> "w9"],
       [session_id |-> "s3", created_at |-> StartDay * MsPerDay + MsPerHour,
        distinct_id |-> "U1", website_id |-> "w2"],
       [session_id |-> "s4", created_at |-> StartDay * MsPerDay + StartHour * MsPerHour,
        distinct_id |-> "u3", website_id |-> "w1"] >>

\* String.prototype.toLowerCase on the identities of the model.
ToLowerCase(s) ==
    CASE s = "U1" -> "u1"
      [] s = "U2" -> "u2"
      [] OTHER -> s

\* ------------------------------------------------------------------- state
VARIABLES
    now,                \* the wall clock
    ticks,              \* clock advances so far
    faults,             \* external calls that failed so far
    envRead,            \* history: process.env['INITIAL_SYNC_DAYS'] as the planner read it
    pc,                 \* position of the run in syncAllData
    syncStartTime,      \* syncAllData: const syncStartTime
    syncWindow,         \* syncAllData: const syncWindow
    systemconfigs,      \* the document { _id: 'global' } of systemconfigs
    users,              \* the users collection, in natural order
    currentToken,       \* UmamiApiService.currentToken
    idx,                \* index of the website the loop is at
    sessions,           \* sessions fetched for that website
    sidx,               \* index of the session the inner loop is at
    unmatchedSessions,  \* syncAnalyticsDataForWindow: const unmatchedSessions
    page,               \* fetchAllSessions: let page
    requests,           \* history: the page requests sent for each website in this run
    authLog,            \* history: what each call of authenticate returned in this run
    errorsAtStart,      \* history: each website's errorCount when the run started
    written,            \* history: what the run has written so far
    outcome,            \* history: what happened to each website in this run
    failsSince,         \* history: failed syncs of a website since its last successful one
    finalizeResult,     \* history: what updateLastSuccessfulSync did in this run
    apiCalls,           \* history: requests sent to the analytics API in this run
    phases,             \* history: the phases the run has entered, in order
    lastAdvance,        \* history: start and finish of the last run that stored the watermark
    websiteIdsStr,      \* process.env['UMAMI_WEBSITE_IDS']
    websiteIds,         \* UmamiService.websiteIds, as the constructor set it
    instance,           \* DatabaseService.instance
    connection,         \* DatabaseService.connection of that instance
    calls,              \* history: the calls made to DatabaseService and what they gave
    invocations,        \* history: invocations of timerTrigger so far
    handlerPc,          \* position of the handler in timerTrigger
    databaseService,    \* timerTrigger: let databaseService
    completion,         \* timerTrigger: how the block it is leaving completes
    handlerLog,         \* history: what the steps of this invocation did, in order
    logged              \* history: the calls of the Logger methods and what each forwarded

\* The variables of DatabaseService.
database == << instance, connection, calls >>

\* The variables of an invocation of timerTrigger.
trigger == << invocations, handlerPc, databaseService, completion, handlerLog >>

\* The state of the process around the runs: its environment and its services.
host == << websiteIdsStr, websiteIds, database, trigger, logged >>

\* The variables of a run of the engine.
engine == << now, ticks, faults, envRead, pc, syncStartTime, syncWindow,
             systemconfigs, users, currentToken, idx, sessions, sidx,
             unmatchedSessions, page, requests, authLog,
             errorsAtStart, written, outcome, failsSince, finalizeResult, apiCalls,
             phases, lastAdvance >>

vars == << host, engine >>

\* ------------------------------------------------------ systemconfigs document
NoStatus ==
    [lastSync |-> Absent, lastDaySynced |-> Absent,
     sessionsProcessed |-> Absent, errorCount |-> Absent]

NoDocument ==
    [exists |-> FALSE, lastSuccessfulSync |-> Absent, lastSessionSync |-> Absent,
     lastAnalyticsSync |-> Absent, createdAt |-> Absent, type |-> Null,
     websiteSyncStatus |-> [w \in WebsiteSet |-> NoStatus]]

NoWindow == [startDate |-> Absent, endDate |-> Absent, syncType |-> Null]
NoAnalytics == [id |-> Null, websiteId |-> Null]

\* config?.umamiSync?.lastSuccessfulSync
LastSuccessfulSync(doc) == IF doc.exists THEN doc.lastSuccessfulSync ELSE Absent

\* umamiSync.websiteSyncStatus[w].errorCount, 0 when the document has none
ErrorCount(doc, w) ==
    IF doc.websiteSyncStatus[w].errorCount = Absent THEN 0
    ELSE doc.websiteSyncStatus[w].errorCount

\* A faulty planner: the incremental window starts at the watermark, no buffer.
DetermineSyncWindowNoBuffer(doc, today, daysEnv) ==
    IF LastSuccessfulSync(doc) = Absent
    THEN [startDate |-> today - ParseInitialSyncDays(daysEnv) * 24 * 60 * 60 * 1000,
          endDate |-> today,
          syncType |-> "initial"]
    ELSE [startDate |-> LastSuccessfulSync(doc),
          endDate |-> today,
          syncType |-> "incremental"]

\* A faulty planner: the buffer is added to the watermark instead of subtracted.
DetermineSyncWindowBufferAhead(doc, today, daysEnv) ==
    IF LastSuccessfulSync(doc) = Absent
    THEN [startDate |-> today - ParseInitialSyncDays(daysEnv) * 24 * 60 * 60 * 1000,
          endDate |-> today,
          syncType |-> "initial"]
    ELSE [startDate |-> LastSuccessfulSync(doc) + SYNC_BUFFER_HOURS * 60 * 60 * 1000,
          endDate |-> today,
          syncType |-> "incremental"]

\* A faulty planner: the initial window goes back hours where days are meant.
DetermineSyncWindowInitialHours(doc, today, daysEnv) ==
    IF LastSuccessfulSync(doc) = Absent
    THEN [startDate |-> today - ParseInitialSyncDays(daysEnv) * 60 * 60 * 1000,
          endDate |-> today,
          syncType |-> "initial"]
    ELSE [startDate |-> LastSuccessfulSync(doc) - SYNC_BUFFER_HOURS * 60 * 60 * 1000,
          endDate |-> today,
          syncType |-> "incremental"]

\* determineSyncWindow, after the document was read: today is new Date()
DetermineSyncWindow(doc, today, daysEnv) ==
    IF LastSuccessfulSync(doc) = Absent
    THEN [startDate |-> today - ParseInitialSyncDays(daysEnv) * 24 * 60 * 60 * 1000,
          endDate |-> today,
          syncType |-> "initial"]
    ELSE [startDate |-> LastSuccessfulSync(doc) - SYNC_BUFFER_HOURS * 60 * 60 * 1000,
          endDate |-> today,
          syncType |-> "incremental"]

\* A faulty status write: $set of the whole of websiteSyncStatus, the statuses of
\* the other websites are dropped.
WebsiteSyncStatusSetReplacingAll(doc, websiteId, syncDay, sessionsProcessed, t) ==
    [doc EXCEPT !.exists = TRUE,
                !.websiteSyncStatus =
                    [w \in WebsiteSet |->
                        IF w = websiteId
                        THEN [lastSync |-> t, lastDaySynced |-> syncDay,
                              sessionsProcessed |-> sessionsProcessed,
                              errorCount |-> 0]
                        ELSE NoStatus]]

\* A faulty status write: the error count of the website is kept, not reset.
WebsiteSyncStatusSetKeepingCount(doc, websiteId, syncDay, sessionsProcessed, t) ==
    [doc EXCEPT !.exists = TRUE,
                !.websiteSyncStatus[websiteId] =
                    [lastSync |-> t, lastDaySynced |-> syncDay,
                     sessionsProcessed |-> sessionsProcessed,
                     errorCount |-> ErrorCount(doc, websiteId)]]

\* A faulty status write: lastDaySynced is left out of the status.
WebsiteSyncStatusSetWithoutDay(doc, websiteId, syncDay, sessionsProcessed, t) ==
    [doc EXCEPT !.exists = TRUE,
                !.websiteSyncStatus[websiteId] =
                    [lastSync |-> t, lastDaySynced |-> Absent,
                     sessionsProcessed |-> sessionsProcessed, errorCount |-> 0]]

\* updateWebsiteSyncStatus: $set umamiSync.websiteSyncStatus.<websiteId>, upsert
WebsiteSyncStatusSet(doc, websiteId, syncDay, sessionsProcessed, t) ==
    [doc EXCEPT !.exists = TRUE,
                !.websiteSyncStatus[websiteId] =
                    [lastSync |-> t, lastDaySynced |-> syncDay,
                     sessionsProcessed |-> sessionsProcessed, errorCount |-> 0]]

\* A faulty increment: $set errorCount to 1 where $inc by 1 is meant.
WebsiteErrorCountSetOne(doc, websiteId) ==
    [doc EXCEPT !.exists = TRUE,
                !.websiteSyncStatus[websiteId].errorCount = 1]

\* incrementWebsiteErrorCount: $inc ...<websiteId>.errorCount by 1, upsert
WebsiteErrorCountInc(doc, websiteId) ==
    [doc EXCEPT !.exists = TRUE,
                !.websiteSyncStatus[websiteId].errorCount = ErrorCount(doc, websiteId) + 1]

\* A faulty finalization: the instant of the write is stored, not the run's start.
LastSuccessfulSyncSetAtWrite(doc, startTime, t) ==
    [doc EXCEPT !.exists = TRUE,
                !.lastSuccessfulSync = t,
                !.lastSessionSync = t,
                !.lastAnalyticsSync = t,
                !.createdAt = IF doc.exists THEN doc.createdAt ELSE t,
                !.type = IF doc.exists THEN doc.type ELSE "system"]

\* A faulty finalization: lastSuccessfulSync is left out of the $set.
LastSuccessfulSyncSetWithoutWatermark(doc, startTime, t) ==
    [doc EXCEPT !.exists = TRUE,
                !.lastSessionSync = startTime,
                !.lastAnalyticsSync = startTime,
                !.createdAt = IF doc.exists THEN doc.createdAt ELSE t,
                !.type = IF doc.exists THEN doc.type ELSE "system"]

\* A guarded finalization: the watermark is stored only when it is later than the
\* one the document holds.
LastSuccessfulSyncSetIfLater(doc, startTime, t) ==
    LET later == IF LastSuccessfulSync(doc) > startTime
                 THEN LastSuccessfulSync(doc) ELSE startTime
    IN [doc EXCEPT !.exists = TRUE,
                   !.lastSuccessfulSync = later,
                   !.lastSessionSync = later,
                   !.lastAnalyticsSync = later,
                   !.createdAt = IF doc.exists THEN doc.createdAt ELSE t,
                   !.type = IF doc.exists THEN doc.type ELSE "system"]

\* updateLastSuccessfulSync: $set the three instants, $setOnInsert createdAt and type
LastSuccessfulSyncSet(doc, startTime, t) ==
    [doc EXCEPT !.exists = TRUE,
                !.lastSuccessfulSync = startTime,
                !.lastSessionSync = startTime,
                !.lastAnalyticsSync = startTime,
                !.createdAt = IF doc.exists THEN doc.createdAt ELSE t,
                !.type = IF doc.exists THEN doc.type ELSE "system"]

\* ------------------------------------------------------------ users collection
InitialUsers ==
    << [email |-> "u1", session_id |-> "s1", umamiAnalytics |-> NoAnalytics,
        updatedAt |-> Absent],
       [email |-> "u2", session_id |-> Null, umamiAnalytics |-> NoAnalytics,
        updatedAt |-> Absent] >>

\* The first document of the collection that a filter on one field selects, or 0.
FindOne(us, field, value) ==
    LET hits == {i \in 1..Len(us) : us[i][field] = value}
    IN IF hits = {} THEN 0 ELSE CHOOSE i \in hits : \A j \in hits : i <= j

\* { $set: fields } applied to one document
SetFields(d, fields) ==
    [f \in DOMAIN d |-> IF f \in DOMAIN fields THEN fields[f] ELSE d[f]]

\* A faulty update: { upsert: true }, a document is inserted when none matches.
UpdateOneUpserting(us, field, value, fields) ==
    LET i == FindOne(us, field, value)
        blank == [email |-> Null, session_id |-> Null, umamiAnalytics |-> NoAnalytics,
                  updatedAt |-> Absent]
    IN IF i = 0
       THEN [users |-> Append(us, [SetFields(blank, fields) EXCEPT ![field] = value]),
             matchedCount |-> 0, modifiedCount |-> 0]
       ELSE [users |-> [us EXCEPT ![i] = SetFields(us[i], fields)],
             matchedCount |-> 1,
             modifiedCount |-> IF SetFields(us[i], fields) = us[i] THEN 0 ELSE 1]

\* collection.updateOne(filter, { $set: fields }): the collection after it, with
\* the driver's matchedCount and modifiedCount
UpdateOne(us, field, value, fields) ==
    LET i == FindOne(us, field, value)
    IN IF i = 0
       THEN [users |-> us, matchedCount |-> 0, modifiedCount |-> 0]
       ELSE [users |-> [us EXCEPT ![i] = SetFields(us[i], fields)],
             matchedCount |-> 1,
             modifiedCount |-> IF SetFields(us[i], fields) = us[i] THEN 0 ELSE 1]

\* ------------------------------------------------------- UmamiDbService
\* getSessionsCreatedAfter: WHERE created_at >= ? ORDER BY created_at ASC, each row
\* mapped to { session_id, created_at, distinct_id }
GetSessionsCreatedAfter(table, startTime) ==
    LET rows == SelectSeq(table, LAMBDA r : r.created_at >= startTime)
    IN [i \in 1..Len(rows) |->
            [session_id |-> rows[i].session_id,
             created_at |-> rows[i].created_at,
             distinct_id |-> rows[i].distinct_id]]

\* session.website_id, read from a row the adapter returned
WebsiteIdOf(session) ==
    IF "website_id" \in DOMAIN session THEN session.website_id ELSE Undefined

\* ------------------------------------------------------- session sync
\* updateUserSessionsSequential: rows applied in order; throwing is the set of
\* rows whose updateOne throws (caught, the loop goes on)
RECURSIVE UpdateUserSessionsSequential(_, _, _, _, _)
UpdateUserSessionsSequential(us, rows, k, throwing, t) ==
    IF k > Len(rows)
    THEN [users |-> us, updatedCount |-> 0]
    ELSE LET r == IF k \in throwing
                  THEN [users |-> us, matchedCount |-> 0, modifiedCount |-> 0]
                  ELSE UpdateOne(us, "email", ToLowerCase(rows[k].distinct_id),
                                 [session_id |-> rows[k].session_id, updatedAt |-> t])
             rest == UpdateUserSessionsSequential(r.users, rows, k + 1, throwing, t)
         IN [users |-> rest.users, updatedCount |-> r.modifiedCount + rest.updatedCount]

\* the sessions kept by the filter on configured websites
FilterConfigured(rows) ==
    SelectSeq(rows, LAMBDA r : WebsiteIdOf(r) \in WebsiteSet)

\* the rows syncSessionIdsForWindow hands to updateUserSessionsSequential
SessionsToApply(table, startDate) ==
    FilterConfigured(GetSessionsCreatedAfter(table, startDate))

\* A faulty session sync: rows are applied as they come, and an unreachable source
\* is noticed only afterwards.
SyncSessionIdsForWindowPartial(us, table, sourceUp, throwing, startDate, t) ==
    [users |-> UpdateUserSessionsSequential(
                   us, GetSessionsCreatedAfter(table, startDate), 1, throwing, t).users,
     thrown |-> ~sourceUp]

\* A faulty session sync: a source that returns no row counts as an error.
SyncSessionIdsForWindowThrowingOnEmpty(us, table, sourceUp, throwing, startDate, t) ==
    IF ~sourceUp
    THEN [users |-> us, thrown |-> TRUE]
    ELSE LET fetched == GetSessionsCreatedAfter(table, startDate)
             filteredSessions == SessionsToApply(table, startDate)
             applied == UpdateUserSessionsSequential(us, filteredSessions, 1, throwing, t)
         IN IF Len(fetched) = 0
            THEN [users |-> us, thrown |-> TRUE]
            ELSE IF Len(filteredSessions) = 0
                 THEN [users |-> us, thrown |-> FALSE]
                 ELSE [users |-> applied.users, thrown |-> applied.updatedCount = 0]

\* syncSessionIdsForWindow: the collection after it and whether it threw
SyncSessionIdsForWindow(us, table, sourceUp, throwing, startDate, t) ==
    IF ~sourceUp
    THEN [users |-> us, thrown |-> TRUE]
    ELSE LET fetched == GetSessionsCreatedAfter(table, startDate)
             filteredSessions == SessionsToApply(table, startDate)
             applied == UpdateUserSessionsSequential(us, filteredSessions, 1, throwing, t)
         IN IF Len(fetched) = 0 \/ Len(filteredSessions) = 0
            THEN [users |-> us, thrown |-> FALSE]
            ELSE [users |-> applied.users, thrown |-> applied.updatedCount = 0]

\* ------------------------------------------------------- analytics sync
\* an analytics session as the API reports it
ApiSession(id, websiteId) == [id |-> id, websiteId |-> websiteId]

\* A faulty update: the snapshot takes the website's id for the session's.
UpdateSingleUserAnalyticsWebsiteAsId(us, session, t) ==
    UpdateOne(us, "session_id", session.id,
              [umamiAnalytics |-> [id |-> session.websiteId,
                                   websiteId |-> session.websiteId],
               updatedAt |-> t])

\* A faulty update: the snapshot carries the instant of the write.
UpdateSingleUserAnalyticsStamped(us, session, t) ==
    UpdateOne(us, "session_id", session.id,
              [umamiAnalytics |-> [id |-> session.id, websiteId |-> session.websiteId,
                                   lastAt |-> t],
               updatedAt |-> t])

\* updateSingleUserAnalytics: updateOne({ session_id: session.id }, $set ...)
UpdateSingleUserAnalytics(us, session, t) ==
    UpdateOne(us, "session_id", session.id,
              [umamiAnalytics |-> [id |-> session.id, websiteId |-> session.websiteId],
               updatedAt |-> t])

\* for (const session of sessions) await this.updateSingleUserAnalytics(session),
\* from session k on, when no update throws: the collection after the loop
RECURSIVE UpdateUsersAnalytics(_, _, _, _)
UpdateUsersAnalytics(us, list, k, t) ==
    IF k > Len(list) THEN us
    ELSE UpdateUsersAnalytics(UpdateSingleUserAnalytics(us, list[k], t).users,
                              list, k + 1, t)

\* ------------------------------------------------------------------- runs
\* History: no page request was sent for any website.
NoRequests == [w \in WebsiteSet |-> << >>]

\* History: the run has changed no user, no website status and no watermark.
NothingWritten == [users |-> FALSE, status |-> FALSE, watermark |-> FALSE]

\* History: written, after a step from the unprimed to the primed collections.
Written ==
    [users |-> written.users \/ users' # users,
     status |-> written.status
                \/ systemconfigs'.websiteSyncStatus # systemconfigs.websiteSyncStatus,
     watermark |-> written.watermark
                   \/ LastSuccessfulSync(systemconfigs') # LastSuccessfulSync(systemconfigs)]

\* ------------------------------------------------------------- getWebsiteIds
\* A variable of process.env: not set, or set to a string. A string is the
\* sequence of its characters.
UnsetEnv == [defined |-> FALSE, value |-> << >>]
SetEnv(str) == [defined |-> TRUE, value |-> str]

\* process.env[name] || ''
OrEmpty(env) == IF env.defined THEN env.value ELSE << >>

\* String.prototype.split(','), from character i on: cur is the item being read,
\* acc the items read
RECURSIVE SplitFrom(_, _, _, _)
SplitFrom(str, i, cur, acc) ==
    IF i > Len(str) THEN Append(acc, cur)
    ELSE IF str[i] = ","
         THEN SplitFrom(str, i + 1, << >>, Append(acc, cur))
         ELSE SplitFrom(str, i + 1, Append(cur, str[i]), acc)

Split(str) == SplitFrom(str, 1, << >>, << >>)

\* String.prototype.trim
RECURSIVE TrimStart(_)
TrimStart(str) ==
    IF str # << >> /\ Head(str) = " " THEN TrimStart(Tail(str)) ELSE str

RECURSIVE TrimEnd(_)
TrimEnd(str) ==
    IF str # << >> /\ str[Len(str)] = " "
    THEN TrimEnd(SubSeq(str, 1, Len(str) - 1)) ELSE str

Trim(str) == TrimEnd(TrimStart(str))

\* A faulty getWebsiteIds: the items are not trimmed.
GetWebsiteIdsUntrimmed(env) ==
    SelectSeq(Split(OrEmpty(env)), LAMBDA id : id # << >>)

\* getWebsiteIds: websiteIdsStr.split(',').map(id => id.trim()).filter(Boolean)
GetWebsiteIds(env) ==
    LET items == Split(OrEmpty(env))
        trimmed == [k \in 1..Len(items) |-> Trim(items[k])]
    IN SelectSeq(trimmed, LAMBDA id : id # << >>)

\* ------------------------------------------------------------ DatabaseService
\* private connection: Connection | null = null
NoConnection == [exists |-> FALSE, readyState |-> 0]

\* a connection createConnection returned, open (readyState 1) or not (0)
Connection(readyState) == [exists |-> TRUE, readyState |-> readyState]

\* isConnected: this.connection?.readyState === 1
IsConnected(conn) == conn.exists /\ conn.readyState = 1

\* A faulty connect: the connection is created before the string is looked at.
ConnectOfCreatingFirst(conn, mongoUrl, opens) ==
    IF ~conn.exists \/ conn.readyState # 1
    THEN IF OrEmpty(mongoUrl) = << >> \/ ~opens
         THEN [connection |-> Connection(0), threw |-> TRUE]
         ELSE [connection |-> Connection(1), threw |-> FALSE]
    ELSE [connection |-> conn, threw |-> FALSE]

\* connect, the environment holding mongoUrl, and the connection opening or not:
\* the connection afterwards and whether connect threw
ConnectOf(conn, mongoUrl, opens) ==
    IF ~conn.exists \/ conn.readyState # 1
    THEN IF OrEmpty(mongoUrl) = << >>
         THEN [connection |-> conn, threw |-> TRUE]
         ELSE IF opens
              THEN [connection |-> Connection(1), threw |-> FALSE]
              ELSE [connection |-> Connection(0), threw |-> TRUE]
    ELSE [connection |-> conn, threw |-> FALSE]

\* disconnect, close() resolving or not: the connection afterwards and whether
\* disconnect threw
DisconnectOf(conn, closes) ==
    IF conn.exists
    THEN IF closes
         THEN [connection |-> NoConnection, threw |-> FALSE]
         ELSE [connection |-> conn, threw |-> TRUE]
    ELSE [connection |-> conn, threw |-> FALSE]

\* The process before any call of DatabaseService.
DatabaseInit ==
    /\ instance = Absent
    /\ connection = NoConnection
    /\ calls = << >>

\* ---------------------------------------------------------------- timerTrigger
\* How a block completes: normally, or by throwing an error. An error is known by
\* the step that threw it.
NoError == "none"
Normal == [type |-> "normal", error |-> NoError]
Throw(error) == [type |-> "throw", error |-> error]

\* What a disconnect of the handler leaves in the log of the invocation.
DisconnectEvents(result) ==
    IF result.threw THEN << "close threw" >> ELSE << "closed" >>

\* catch (error): if (databaseService) the connection is disconnected, an error of
\* the disconnect being logged; then throw error
CatchOf(service, conn, error, closes) ==
    IF service # Absent
    THEN LET result == DisconnectOf(conn, closes)
         IN [connection |-> result.connection,
             completion |-> Throw(error),
             events |-> DisconnectEvents(result)]
    ELSE [connection |-> conn, completion |-> Throw(error), events |-> << >>]

\* A faulty finally block: the disconnect is not in a try of its own, and its error
\* takes the place of the completion of the block before.
FinallyOfUnguarded(service, conn, before, closes) ==
    IF service # Absent /\ IsConnected(conn)
    THEN LET result == DisconnectOf(conn, closes)
         IN [connection |-> result.connection,
             completion |-> IF result.threw THEN Throw("close") ELSE before,
             events |-> DisconnectEvents(result)]
    ELSE [connection |-> conn, completion |-> before, events |-> << >>]

\* finally: if (databaseService && databaseService.isConnected()) the connection is
\* disconnected, an error of the disconnect being logged; the handler completes as
\* the block before did
FinallyOf(service, conn, before, closes) ==
    IF service # Absent /\ IsConnected(conn)
    THEN LET result == DisconnectOf(conn, closes)
         IN [connection |-> result.connection,
             completion |-> before,
             events |-> DisconnectEvents(result)]
    ELSE [connection |-> conn, completion |-> before, events |-> << >>]

\* The process before the first invocation of the handler.
TriggerInit ==
    /\ invocations = 0
    /\ handlerPc = "IDLE"
    /\ databaseService = Absent
    /\ completion = Normal
    /\ handlerLog = << >>

\* ---------------------------------------------------------------------- Logger
\* A value of the language: its type, and what it is within the type.
JsValue(type, value) == [type |-> type, value |-> value]

\* The metadata argument left out, which is the argument undefined.
NotGiven == JsValue("undefined", "")

\* !metadata: undefined, null, 0, NaN, the empty string and false are falsy
Falsy(v) ==
    \/ v.type \in {"undefined", "null"}
    \/ v.type = "number" /\ v.value \in {"0", "NaN"}
    \/ v.type = "string" /\ v.value = ""
    \/ v.type = "boolean" /\ v.value = "false"

\* baseLogger[level](msg)
BaseCall1(level, msg) ==
    [level |-> level, arity |-> 1, key |-> "", object |-> NotGiven, msg |-> msg]

\* baseLogger[level](object, msg): the object is the metadata itself (key ""), or
\* an object that carries it under a key
BaseCall2(level, key, object, msg) ==
    [level |-> level, arity |-> 2, key |-> key, object |-> object, msg |-> msg]

\* formatLog(level, msg, metadata): the calls it makes to the base logger
FormatLog(level, msg, metadata) ==
    IF Falsy(metadata)
    THEN << BaseCall1(level, msg) >>
    ELSE IF metadata.type = "Error"
         THEN << BaseCall2(level, "error", metadata, msg) >>
         ELSE IF metadata.type = "object"
              THEN << BaseCall2(level, "", metadata, msg) >>
              ELSE << BaseCall2(level, "value", metadata, msg) >>

\* The process before the first call of a Logger method.
LoggerInit == logged = << >>

\* The process before the runs: in the specifications of the runs the websites are
\* the ones of WebsiteIds, and the environment is not read.
HostInit ==
    /\ websiteIdsStr = UnsetEnv
    /\ websiteIds = << >>
    /\ DatabaseInit
    /\ TriggerInit
    /\ LoggerInit

\* The engine before its first run.
EngineInit ==
    /\ now = StartDay * MsPerDay + StartHour * MsPerHour
    /\ ticks = 0
    /\ faults = 0
    /\ envRead = Null
    /\ pc = "IDLE"
    /\ syncStartTime = Absent
    /\ syncWindow = NoWindow
    /\ systemconfigs = NoDocument
    /\ users = InitialUsers
    /\ currentToken = Null
    /\ idx = 1
    /\ sessions = << >>
    /\ sidx = 1
    /\ unmatchedSessions = << >>
    /\ page = 1
    /\ requests = NoRequests
    /\ authLog = << >>
    /\ errorsAtStart = [w \in WebsiteSet |-> 0]
    /\ written = NothingWritten
    /\ outcome = [w \in WebsiteSet |-> "pending"]
    /\ failsSince = [w \in WebsiteSet |-> 0]
    /\ finalizeResult = "none"
    /\ apiCalls = 0
    /\ phases = << >>
    /\ lastAdvance = [start |-> Absent, finish |-> Absent]

Init == HostInit /\ EngineInit

\* An external call returns.
Returns == UNCHANGED faults

\* An external call throws.
Throws ==
    /\ faults < MaxFaults
    /\ faults' = faults + 1

\* Time passes.
Tick ==
    /\ ticks < MaxTicks
    /\ ticks' = ticks + 1
    /\ now' = now + TickHours * MsPerHour
    /\ UNCHANGED << host, faults, envRead, pc, syncStartTime, syncWindow,
                    systemconfigs, users, currentToken, idx, sessions, sidx,
                    page, requests, authLog, unmatchedSessions,
                    errorsAtStart, written, outcome, failsSince, finalizeResult, apiCalls,
                    phases, lastAdvance >>

\* A faulty start: the watermark is stored when the run starts.
SyncAllDataAdvancingFirst ==
    /\ pc = "IDLE"
    /\ syncStartTime' = now
    /\ pc' = "PLANNING"
    /\ errorsAtStart' = [w \in WebsiteSet |-> ErrorCount(systemconfigs, w)]
    /\ systemconfigs' = LastSuccessfulSyncSet(systemconfigs, now, now)
    /\ written' = [NothingWritten EXCEPT !.watermark = TRUE]
    /\ phases' = << "PLANNING" >>
    /\ UNCHANGED << host, now, ticks, faults, envRead, syncWindow,
                    users, currentToken, idx, sessions, sidx, outcome, failsSince,
                    page, requests, authLog, unmatchedSessions,
                    finalizeResult, apiCalls, lastAdvance >>

\* syncAllData is called: const syncStartTime = new Date()
SyncAllData ==
    /\ pc = "IDLE"
    /\ syncStartTime' = now
    /\ pc' = "PLANNING"
    /\ errorsAtStart' = [w \in WebsiteSet |-> ErrorCount(systemconfigs, w)]
    /\ written' = NothingWritten
    /\ phases' = << "PLANNING" >>
    /\ UNCHANGED << host, now, ticks, faults, envRead, syncWindow, systemconfigs,
                    users, currentToken, idx, sessions, sidx, outcome, failsSince,
                    page, requests, authLog, unmatchedSessions,
                    finalizeResult, apiCalls, lastAdvance >>

\* await this.determineSyncWindow(): the read of the document succeeds or throws
PlanWindow ==
    /\ pc = "PLANNING"
    /\ \/ /\ Returns
          /\ \E daysEnv \in InitialSyncDaysEnv :
                /\ syncWindow' = DetermineSyncWindow(systemconfigs, now, daysEnv)
                /\ envRead' = IF LastSuccessfulSync(systemconfigs) = Absent
                              THEN daysEnv ELSE Null
          /\ pc' = "SESSION_SYNC"
          /\ phases' = Append(phases, "SESSION_SYNC")
       \/ /\ Throws
          /\ pc' = "FAILED"
          /\ phases' = Append(phases, "FAILED")
          /\ UNCHANGED << syncWindow, envRead >>
    /\ UNCHANGED << host, now, ticks, syncStartTime,
                    systemconfigs, users, currentToken, idx, sessions, sidx,
                    page, requests, authLog, unmatchedSessions,
                    errorsAtStart, written, outcome, failsSince, finalizeResult, apiCalls, lastAdvance >>

\* await this.syncSessionIdsForWindow(startDate, endDate), the source holding table:
\* the source is up or down, and the updates of the rows in throwing throw
SessionSyncOf(table) ==
    /\ pc = "SESSION_SYNC"
    /\ \E sourceUp \in BOOLEAN :
          \E throwing \in SUBSET (1..Len(SessionsToApply(table,
                                                         syncWindow.startDate))) :
             LET r == SyncSessionIdsForWindow(users, table, sourceUp, throwing,
                                              syncWindow.startDate, now)
             IN /\ IF sourceUp THEN Returns ELSE Throws
                /\ users' = r.users
                /\ pc' = IF r.thrown THEN "FAILED" ELSE "AUTHENTICATE"
                /\ phases' = Append(phases, IF r.thrown THEN "FAILED"
                                                        ELSE "ANALYTICS_SYNC")
    /\ UNCHANGED << host, now, ticks, envRead, syncStartTime, syncWindow,
                    systemconfigs, currentToken, idx, sessions, sidx,
                    page, requests, authLog, unmatchedSessions,
                    errorsAtStart, outcome, failsSince, finalizeResult, apiCalls, lastAdvance >>
    /\ written' = Written

\* session sync against the session table of the source
SessionSync == SessionSyncOf(SessionTable)

\* A faulty loop: authenticate is called again before each further website.
LoopFromReauthenticating(i) ==
    IF i < Len(WebsiteIds)
    THEN /\ idx' = i + 1
         /\ pc' = "AUTHENTICATE"
         /\ UNCHANGED << currentToken, phases >>
    ELSE /\ idx' = i
         /\ pc' = "FINALIZING"
         /\ phases' = Append(phases, "FINALIZING")
         /\ currentToken' = Null

\* A faulty end of the loop: no finally block, the token stays.
LoopFromKeepingToken(i) ==
    IF i < Len(WebsiteIds)
    THEN /\ idx' = i + 1
         /\ pc' = "FETCH"
         /\ UNCHANGED << currentToken, phases >>
    ELSE /\ idx' = i
         /\ pc' = "FINALIZING"
         /\ phases' = Append(phases, "FINALIZING")
         /\ UNCHANGED currentToken

\* The loop over this.websiteIds moves on from website i; after the last one the
\* finally block clears the token and syncAnalyticsDataForWindow returns.
LoopFrom(i) ==
    IF i < Len(WebsiteIds)
    THEN /\ idx' = i + 1
         /\ pc' = "FETCH"
         /\ UNCHANGED << currentToken, phases >>
    ELSE /\ idx' = i
         /\ pc' = "FINALIZING"
         /\ phases' = Append(phases, "FINALIZING")
         /\ currentToken' = Null

\* A faulty handling of a failed authentication: the failure is charged to the
\* first website, and the loop goes on.
AuthenticateThrowsIntoLoop ==
    /\ pc' = "INCREMENT"
    /\ idx' = 1
    /\ outcome' = [outcome EXCEPT ![WebsiteIds[1]] = "failed"]
    /\ failsSince' = [failsSince EXCEPT ![WebsiteIds[1]] = @ + 1]
    /\ UNCHANGED << currentToken, phases >>

\* authenticate throws API_AUTH_FAILED: no token is stored, and the error goes
\* through the outer catch and the finally block (clearToken) to syncAllData
AuthenticateThrows ==
    /\ pc' = "FAILED"
    /\ phases' = Append(phases, "FAILED")
    /\ currentToken' = Null
    /\ UNCHANGED << idx, outcome, failsSince >>

\* await this.apiService.authenticate(), the response carrying one of tokens: the
\* token of the response is stored, or the request fails. A response without a
\* token is one of the failures of the API the model counts.
AuthenticateWith(tokens) ==
    /\ pc = "AUTHENTICATE"
    /\ apiCalls' = apiCalls + 1
    /\ \/ /\ \E token \in tokens :
                /\ IF token = Undefined THEN Throws ELSE Returns
                /\ authLog' = Append(authLog, token)
                /\ IF Len(WebsiteIds) = 0
                   THEN /\ pc' = "FINALIZING"
                        /\ phases' = Append(phases, "FINALIZING")
                        /\ currentToken' = Null
                   ELSE /\ pc' = "FETCH"
                        /\ UNCHANGED phases
                        /\ currentToken' = token
          /\ idx' = 1
          /\ UNCHANGED << outcome, failsSince >>
       \/ /\ Throws
          /\ authLog' = Append(authLog, "failed")
          /\ AuthenticateThrows
    /\ UNCHANGED << host, now, ticks, envRead, syncStartTime, syncWindow,
                    systemconfigs, users, sessions, sidx, page, requests,
                    unmatchedSessions,
                    errorsAtStart, written, finalizeResult, lastAdvance >>

\* authenticate against an API whose login response carries a token
Authenticate == AuthenticateWith({"token"})

\* A faulty loop body: the website's error is thrown on to syncAllData.
RethrowWebsiteError ==
    /\ pc' = "FAILED"
    /\ phases' = Append(phases, "FAILED")
    /\ currentToken' = Null

\* catch (error) around one website's sync: the error is logged, the website's
\* error count is incremented next, and the loop goes on
CatchWebsiteError ==
    /\ pc' = "INCREMENT"
    /\ UNCHANGED << currentToken, phases >>

\* A faulty loop: the safety check on the page number is missing.
AfterPageWithoutCeiling(allSessions, pageNo, response) ==
    [allSessions |-> allSessions \o response.data,
     hasMoreData |-> Len(response.data) = response.pageSize,
     page |-> pageNo + 1,
     break |-> FALSE]

\* A faulty loop: the records of a page are put in front of the ones collected.
AfterPagePrepending(allSessions, pageNo, response) ==
    [allSessions |-> response.data \o allSessions,
     hasMoreData |-> Len(response.data) = response.pageSize,
     page |-> pageNo + 1,
     break |-> pageNo + 1 > PageLimit]

\* fetchAllSessions, one turn of its while loop once the page's response is there:
\* allSessions.push(...response.data), hasMoreData, page++, and the break
AfterPage(allSessions, pageNo, response) ==
    [allSessions |-> allSessions \o response.data,
     hasMoreData |-> Len(response.data) = response.pageSize,
     page |-> pageNo + 1,
     break |-> pageNo + 1 > PageLimit]

\* The response to a page request: count sessions of the website, the first of them
\* the one at position first of the website's sessions, and the pageSize reported.
\* The session at position 1 is a user's, the ones after it are nobody's.
ApiResponse(websiteId, first, count, pageSize) ==
    [data |-> [i \in 1..count |->
                  ApiSession(IF first + i - 1 = 1 THEN "s1" ELSE "s2", websiteId)],
     pageSize |-> pageSize]

\* The responses the API may give to the next page request of a run: it reports
\* PageSize, and holds MaxRecords sessions of the website at most.
ApiResponses(websiteId, collected) ==
    {ApiResponse(websiteId, Len(collected) + 1, count, PageSize) :
        count \in {c \in 0..PageSize : Len(collected) + c <= MaxRecords}}

\* History: a page request and what came back (count is Absent when it failed).
Request(pageNo, token, first, count, pageSize) ==
    [page |-> pageNo, token |-> token, first |-> first, count |-> count,
     pageSize |-> pageSize]

\* The ordinal, among the website's sessions, of the first session of the next page.
NextFirst(log) ==
    IF log = << >> \/ log[Len(log)].count = Absent THEN 1
    ELSE log[Len(log)].first + log[Len(log)].count

\* A faulty getToken: the token is handed out as it is, even when there is none.
GetTokenNeverThrows(token) == FALSE

\* getToken: if (!this.currentToken) throw new Error('No token available...')
GetTokenThrows(token) == token \in {Null, Undefined, ""}

\* A faulty catch: the page that failed is requested again.
PageFetchRetried ==
    UNCHANGED << pc, currentToken, phases, outcome, failsSince, sessions, page,
                 sidx, idx >>

\* catch (error) of fetchAllSessions, then of the loop body: the sessions collected
\* so far are dropped with the error, and the website counts as failed
PageFetchThrows ==
    /\ CatchWebsiteError
    /\ outcome' = [outcome EXCEPT ![WebsiteIds[idx]] = "failed"]
    /\ failsSince' = [failsSince EXCEPT ![WebsiteIds[idx]] = @ + 1]
    /\ sessions' = << >>
    /\ page' = 1
    /\ UNCHANGED << sidx, idx >>

\* await this.fetchSessionsPage(websiteId, ..., page), inside fetchAllSessions: with
\* no token getToken throws before a request is sent; else the request fails, or
\* its response is one of responses and the loop goes on, or ends with no session
\* (continue) or with sessions to apply
FetchSessionsPage(responses) ==
    /\ pc = "FETCH"
    /\ IF GetTokenThrows(currentToken)
       THEN /\ PageFetchThrows
            /\ UNCHANGED << faults, apiCalls, requests >>
       ELSE /\ apiCalls' = apiCalls + 1
            /\ \/ /\ Throws
                  /\ requests' = [requests EXCEPT ![WebsiteIds[idx]] =
                        Append(@, Request(page, currentToken,
                                          NextFirst(@), Absent, Absent))]
                  /\ PageFetchThrows
               \/ /\ Returns
                  /\ \E response \in responses :
                        LET next == AfterPage(sessions, page, response)
                        IN /\ requests' = [requests EXCEPT ![WebsiteIds[idx]] =
                                 Append(@, Request(page, currentToken, NextFirst(@),
                                                   Len(response.data),
                                                   response.pageSize))]
                           /\ IF next.hasMoreData /\ ~next.break
                              THEN /\ sessions' = next.allSessions
                                   /\ page' = next.page
                                   /\ UNCHANGED << pc, idx, sidx, currentToken,
                                                   phases, outcome, failsSince >>
                              ELSE IF Len(next.allSessions) = 0
                                   THEN /\ outcome' = [outcome EXCEPT
                                                         ![WebsiteIds[idx]] = "empty"]
                                        /\ failsSince' = [failsSince EXCEPT
                                                            ![WebsiteIds[idx]] = 0]
                                        /\ LoopFrom(idx)
                                        /\ sessions' = << >>
                                        /\ page' = 1
                                        /\ UNCHANGED sidx
                                   ELSE /\ sessions' = next.allSessions
                                        /\ sidx' = 1
                                        /\ page' = 1
                                        /\ pc' = "UPDATE"
                                        /\ UNCHANGED << idx, currentToken, phases,
                                                        outcome, failsSince >>
    /\ UNCHANGED << host, now, ticks, envRead, syncStartTime, syncWindow,
                    systemconfigs, users, authLog, unmatchedSessions,
                    errorsAtStart, written, finalizeResult, lastAdvance >>

\* await this.apiService.fetchAllSessions(websiteId, ...), page by page
FetchAllSessions ==
    FetchSessionsPage(ApiResponses(WebsiteIds[idx], sessions))

\* A faulty inner loop: no try around the update, an update that throws ends the
\* website's turn in the catch of the outer loop.
UpdateUserAnalyticsAborting ==
    /\ pc = "UPDATE"
    /\ \/ /\ Returns
          /\ LET result == UpdateSingleUserAnalytics(users, sessions[sidx], now)
             IN /\ users' = result.users
                /\ unmatchedSessions' =
                      IF result.matchedCount > 0 THEN unmatchedSessions
                      ELSE Append(unmatchedSessions, sessions[sidx].id)
          /\ IF sidx < Len(sessions)
             THEN /\ sidx' = sidx + 1
                  /\ UNCHANGED pc
             ELSE /\ pc' = "STATUS"
                  /\ UNCHANGED sidx
          /\ UNCHANGED << outcome, failsSince >>
       \/ /\ Throws
          /\ UNCHANGED << users, unmatchedSessions, sidx >>
          /\ pc' = "INCREMENT"
          /\ outcome' = [outcome EXCEPT ![WebsiteIds[idx]] = "failed"]
          /\ failsSince' = [failsSince EXCEPT ![WebsiteIds[idx]] = @ + 1]
    /\ UNCHANGED << host, now, ticks, envRead, syncStartTime, syncWindow,
                    systemconfigs, currentToken, idx, sessions,
                    page, requests, authLog,
                    errorsAtStart, finalizeResult, apiCalls,
                    phases, lastAdvance >>
    /\ written' = Written

\* A faulty inner loop: the loop over the sessions never moves on from the session
\* it is at.
UpdateUserAnalyticsRepeating ==
    /\ pc = "UPDATE"
    /\ \/ /\ Returns
          /\ LET result == UpdateSingleUserAnalytics(users, sessions[sidx], now)
             IN /\ users' = result.users
                /\ unmatchedSessions' =
                      IF result.matchedCount > 0 THEN unmatchedSessions
                      ELSE Append(unmatchedSessions, sessions[sidx].id)
       \/ /\ Throws
          /\ UNCHANGED users
          /\ unmatchedSessions' = Append(unmatchedSessions, sessions[sidx].id)
    /\ UNCHANGED << pc, sidx >>
    /\ UNCHANGED << host, now, ticks, envRead, syncStartTime, syncWindow,
                    systemconfigs, currentToken, idx, sessions,
                    page, requests, authLog,
                    errorsAtStart, outcome, failsSince, finalizeResult, apiCalls,
                    phases, lastAdvance >>
    /\ written' = Written

\* await this.updateSingleUserAnalytics(session), for the session the inner loop is
\* at: the update is applied, or it throws and the loop goes on
UpdateUserAnalytics ==
    /\ pc = "UPDATE"
    /\ \/ /\ Returns
          /\ LET result == UpdateSingleUserAnalytics(users, sessions[sidx], now)
             IN /\ users' = result.users
                /\ unmatchedSessions' =
                      IF result.matchedCount > 0 THEN unmatchedSessions
                      ELSE Append(unmatchedSessions, sessions[sidx].id)
       \/ /\ Throws
          /\ UNCHANGED users
          /\ unmatchedSessions' = Append(unmatchedSessions, sessions[sidx].id)
    /\ IF sidx < Len(sessions)
       THEN /\ sidx' = sidx + 1
            /\ UNCHANGED pc
       ELSE /\ pc' = "STATUS"
            /\ UNCHANGED sidx
    /\ UNCHANGED << host, now, ticks, envRead, syncStartTime, syncWindow,
                    systemconfigs, currentToken, idx, sessions,
                    page, requests, authLog,
                    errorsAtStart, outcome, failsSince, finalizeResult, apiCalls,
                    phases, lastAdvance >>
    /\ written' = Written

\* await this.updateWebsiteSyncStatus(websiteId, endDate's date, sessions.length):
\* the write is applied, or it throws and the error is logged
UpdateWebsiteSyncStatus ==
    /\ pc = "STATUS"
    /\ \/ /\ Returns
          /\ systemconfigs' =
                WebsiteSyncStatusSet(systemconfigs, WebsiteIds[idx],
                                     DateString(syncWindow.endDate), Len(sessions), now)
          /\ outcome' = [outcome EXCEPT ![WebsiteIds[idx]] = "synced"]
       \/ /\ Throws
          /\ UNCHANGED systemconfigs
          /\ outcome' = [outcome EXCEPT ![WebsiteIds[idx]] = "synced, status lost"]
    /\ failsSince' = [failsSince EXCEPT ![WebsiteIds[idx]] = 0]
    /\ sessions' = << >>
    /\ sidx' = 1
    /\ unmatchedSessions' = << >>
    /\ LoopFrom(idx)
    /\ UNCHANGED << host, now, ticks, envRead, syncStartTime, syncWindow,
                    users, page, requests, authLog,
                    errorsAtStart, finalizeResult, apiCalls, lastAdvance >>
    /\ written' = Written

\* catch: await this.incrementWebsiteErrorCount(websiteId): the write is applied,
\* or it throws and the error is logged
IncrementWebsiteErrorCount ==
    /\ pc = "INCREMENT"
    /\ \/ /\ Returns
          /\ systemconfigs' = WebsiteErrorCountInc(systemconfigs, WebsiteIds[idx])
          /\ UNCHANGED outcome
       \/ /\ Throws
          /\ UNCHANGED systemconfigs
          /\ outcome' = [outcome EXCEPT ![WebsiteIds[idx]] = "failed, count lost"]
    /\ LoopFrom(idx)
    /\ UNCHANGED << host, now, ticks, envRead, syncStartTime, syncWindow,
                    users, sessions, sidx, page, requests, authLog, unmatchedSessions,
                    errorsAtStart, failsSince,
                    finalizeResult, apiCalls, lastAdvance >>
    /\ written' = Written

\* await this.updateLastSuccessfulSync(syncStartTime): the write is applied, or it
\* throws and the error is logged; syncAllData then completes
UpdateLastSuccessfulSync ==
    /\ pc = "FINALIZING"
    /\ \/ /\ Returns
          /\ systemconfigs' = LastSuccessfulSyncSet(systemconfigs, syncStartTime, now)
          /\ finalizeResult' = "stored"
       \/ /\ Throws
          /\ UNCHANGED systemconfigs
          /\ finalizeResult' = "swallowed"
    /\ pc' = "DONE"
    /\ phases' = Append(phases, "DONE")
    /\ UNCHANGED << host, now, ticks, envRead, syncStartTime, syncWindow,
                    users, currentToken, idx, sessions, sidx,
                    page, requests, authLog, unmatchedSessions,
                    errorsAtStart, outcome, failsSince, apiCalls, lastAdvance >>
    /\ written' = Written

\* The run is over: its locals and the history of the run are dropped.
Forget ==
    /\ syncStartTime' = Absent
    /\ syncWindow' = NoWindow
    /\ envRead' = Null
    /\ idx' = 1
    /\ sessions' = << >>
    /\ sidx' = 1
    /\ errorsAtStart' = [w \in WebsiteSet |-> 0]
    /\ written' = NothingWritten
    /\ outcome' = [w \in WebsiteSet |-> "pending"]
    /\ finalizeResult' = "none"
    /\ apiCalls' = 0
    /\ phases' = << >>
    /\ unmatchedSessions' = << >>
    /\ page' = 1
    /\ requests' = NoRequests
    /\ authLog' = << >>

\* syncAllData resolves: the caller has its success
Resolve ==
    /\ pc = "DONE"
    /\ pc' = "IDLE"
    /\ lastAdvance' = IF finalizeResult = "stored"
                      THEN [start |-> syncStartTime, finish |-> now]
                      ELSE lastAdvance
    /\ Forget
    /\ UNCHANGED << host, now, ticks, faults,
                    systemconfigs, users, currentToken, failsSince >>

\* A faulty failure path: a run that fails drops the watermark.
RejectResettingWatermark ==
    /\ pc = "FAILED"
    /\ pc' = "IDLE"
    /\ Forget
    /\ systemconfigs' = [systemconfigs EXCEPT !.lastSuccessfulSync = Absent]
    /\ UNCHANGED << host, now, ticks, faults,
                    users, currentToken, failsSince, lastAdvance >>

\* syncAllData rejects: the error is logged and thrown to the caller
Reject ==
    /\ pc = "FAILED"
    /\ pc' = "IDLE"
    /\ Forget
    /\ UNCHANGED << host, now, ticks, faults,
                    systemconfigs, users, currentToken, failsSince, lastAdvance >>

Next ==
    \/ Tick
    \/ SyncAllData
    \/ PlanWindow
    \/ SessionSync
    \/ Authenticate
    \/ FetchAllSessions
    \/ UpdateUserAnalytics
    \/ UpdateWebsiteSyncStatus
    \/ IncrementWebsiteErrorCount
    \/ UpdateLastSuccessfulSync
    \/ Resolve
    \/ Reject

Spec == Init /\ [][Next]_vars

\* The steps of a run in progress: the runtime resumes syncAllData after each await.
RunStep ==
    \/ PlanWindow
    \/ SessionSync
    \/ Authenticate
    \/ FetchAllSessions
    \/ UpdateUserAnalytics
    \/ UpdateWebsiteSyncStatus
    \/ IncrementWebsiteErrorCount
    \/ UpdateLastSuccessfulSync
    \/ Resolve
    \/ Reject

\* A run that has started is carried on to its end.
FairSpec == Init /\ [][Next]_vars /\ WF_vars(RunStep)

\* ------------------------------------------------ fetchAllSessions at length
\* The page sizes the API may report in its responses: it echoes the requested
\* one, or caps it.
ReportedPageSizes == {1, 50, API_PAGE_SIZE}

\* The record counts of a page that is not full.
ShortCounts == {0, 37}

\* The response to the request of page pageNo: the session at position i of the
\* page is named by the page and the position.
PagedResponse(websiteId, pageNo, count, pageSize) ==
    [data |-> [i \in 1..count |-> ApiSession(<< pageNo, i >>, websiteId)],
     pageSize |-> pageSize]

\* The responses the API may give to the request of page pageNo of a website: the
\* pageSize it reports is the one it reported on page 1, and the page is full, as
\* long as the website has that many sessions, or short.
PagedResponses(websiteId, pageNo, collected, log) ==
    UNION {{PagedResponse(websiteId, pageNo, count, pageSize) :
               count \in {c \in {pageSize} \cup ShortCounts :
                            /\ c <= pageSize
                            /\ c = pageSize => Len(collected) + c <= MaxCollected}} :
           pageSize \in IF log = << >> THEN ReportedPageSizes
                                       ELSE {log[1].pageSize}}

\* fetchAllSessions against that API, for the website the loop is at
FetchAllSessionsPaged ==
    FetchSessionsPage(PagedResponses(WebsiteIds[idx], page, sessions,
                                     requests[WebsiteIds[idx]]))

\* A first run that has planned its window, found no session row to apply and
\* authenticated: the loop is about to fetch the sessions of the first website.
PagingInit ==
    /\ HostInit
    /\ now = StartDay * MsPerDay + StartHour * MsPerHour
    /\ ticks = 0
    /\ faults = 0
    /\ envRead = ""
    /\ pc = "FETCH"
    /\ syncStartTime = now
    /\ syncWindow = DetermineSyncWindow(NoDocument, now, "")
    /\ systemconfigs = NoDocument
    /\ users = InitialUsers
    /\ currentToken = "token"
    /\ idx = 1
    /\ sessions = << >>
    /\ sidx = 1
    /\ unmatchedSessions = << >>
    /\ page = 1
    /\ requests = NoRequests
    /\ authLog = << "token" >>
    /\ errorsAtStart = [w \in WebsiteSet |-> 0]
    /\ written = NothingWritten
    /\ outcome = [w \in WebsiteSet |-> "pending"]
    /\ failsSince = [w \in WebsiteSet |-> 0]
    /\ finalizeResult = "none"
    /\ apiCalls = 1
    /\ phases = << "PLANNING", "SESSION_SYNC", "ANALYTICS_SYNC" >>
    /\ lastAdvance = [start |-> Absent, finish |-> Absent]

PagingNext == FetchAllSessionsPaged

PagingSpec == PagingInit /\ [][PagingNext]_vars

\* ------------------------------------------- the analytics loop of a website
\* The lists of sessions fetchAllSessions may have returned for a website: the
\* session of a user, a session of nobody, in any order and more than once.
FetchedSessions(websiteId) ==
    LET records == {ApiSession("s1", websiteId), ApiSession("s2", websiteId)}
    IN UNION {[1..n -> records] : n \in 1..3}

\* for (const session of sessions) of a later run that has come to the same website
\* over an overlapping window, the API returning the same sessions: the clock has
\* advanced, and the loop starts again at the first session
UpdateUserAnalyticsAgain ==
    /\ pc = "STATUS"
    /\ ticks < MaxTicks
    /\ ticks' = ticks + 1
    /\ now' = now + TickHours * MsPerHour
    /\ pc' = "UPDATE"
    /\ sidx' = 1
    /\ unmatchedSessions' = << >>
    /\ UNCHANGED << host, faults, envRead, syncStartTime, syncWindow,
                    systemconfigs, users, currentToken, idx, sessions,
                    page, requests, authLog,
                    errorsAtStart, written, outcome, failsSince, finalizeResult,
                    apiCalls, phases, lastAdvance >>

\* A first run has fetched the sessions of the first website in one page, and
\* is about to apply them.
UpdatesInit ==
    /\ HostInit
    /\ now = StartDay * MsPerDay + StartHour * MsPerHour
    /\ ticks = 0
    /\ faults = 0
    /\ envRead = ""
    /\ pc = "UPDATE"
    /\ syncStartTime = now
    /\ syncWindow = DetermineSyncWindow(NoDocument, now, "")
    /\ systemconfigs = NoDocument
    /\ users = InitialUsers
    /\ currentToken = "token"
    /\ idx = 1
    /\ sessions \in FetchedSessions(WebsiteIds[1])
    /\ sidx = 1
    /\ unmatchedSessions = << >>
    /\ page = 1
    /\ requests = [NoRequests EXCEPT ![WebsiteIds[1]] =
                      << Request(1, "token", 1, Len(sessions), API_PAGE_SIZE) >>]
    /\ authLog = << "token" >>
    /\ errorsAtStart = [w \in WebsiteSet |-> 0]
    /\ written = NothingWritten
    /\ outcome = [w \in WebsiteSet |-> "pending"]
    /\ failsSince = [w \in WebsiteSet |-> 0]
    /\ finalizeResult = "none"
    /\ apiCalls = 2
    /\ phases = << "PLANNING", "SESSION_SYNC", "ANALYTICS_SYNC" >>
    /\ lastAdvance = [start |-> Absent, finish |-> Absent]

UpdatesNext ==
    \/ UpdateUserAnalytics
    \/ UpdateUserAnalyticsAgain

UpdatesSpec == UpdatesInit /\ [][UpdatesNext]_vars

\* ------------------------------------------------- a first run, end to end
\* A session table whose rows are each of another user, on a configured website.
MatchingTable ==
    << [session_id |-> "s3", created_at |-> StartDay * MsPerDay + MsPerHour,
        distinct_id |-> "U1", website_id |-> "w1"],
       [session_id |-> "s4", created_at |-> StartDay * MsPerDay + 2 * MsPerHour,
        distinct_id |-> "u2", website_id |-> "w1"] >>

\* The API holds an analytics session for each row of that table, and returns the
\* ones of a website in one page.
MatchingResponses(websiteId) ==
    LET rows == SelectSeq(MatchingTable, LAMBDA r : r.website_id = websiteId)
    IN {[data |-> [i \in 1..Len(rows) |-> ApiSession(rows[i].session_id, websiteId)],
         pageSize |-> API_PAGE_SIZE]}

SessionSyncMatching == SessionSyncOf(MatchingTable)

FetchAllSessionsMatching == FetchSessionsPage(MatchingResponses(WebsiteIds[idx]))

\* One call of syncAllData on empty systemconfigs, against that source and that API.
EndToEndNext ==
    \/ SyncAllData
    \/ PlanWindow
    \/ SessionSyncMatching
    \/ Authenticate
    \/ FetchAllSessionsMatching
    \/ UpdateUserAnalytics
    \/ UpdateWebsiteSyncStatus
    \/ IncrementWebsiteErrorCount
    \/ UpdateLastSuccessfulSync

EndToEndSpec == Init /\ [][EndToEndNext]_vars

\* ------------------------------------------------- two runs that overlap
\* Two invocations of syncAllData run at once against one systemconfigs collection.
\* In this specification systemconfigs is the collection, a sequence of documents
\* [id, doc]; pc, syncStartTime, syncWindow, idx, sessions and finalizeResult hold a
\* value for each run; written is the log of the writes the collection has applied.
Runs == {1, 2}

HasDocument(coll, id) == \E i \in 1..Len(coll) : coll[i].id = id

\* the document a filter { _id: id } matches, NoDocument when it matches none
DocumentOf(coll, id) ==
    IF HasDocument(coll, id)
    THEN coll[CHOOSE i \in 1..Len(coll) : coll[i].id = id].doc
    ELSE NoDocument

\* the collection after the update of the document a filter { _id: id } matches
Replaced(coll, id, doc) ==
    [i \in 1..Len(coll) |->
        IF coll[i].id = id THEN [coll[i] EXCEPT !.doc = doc] ELSE coll[i]]

\* the collection after the insert of an upsert that matched no document
Inserted(coll, id, doc) == Append(coll, [id |-> id, doc |-> doc])

\* A faulty filter: the status writes of a website go to a document of its own.
PendingFilterPerWebsite(r) ==
    IF pc[r].at \in {"STATUS", "INCREMENT"} THEN WebsiteIds[idx[r]] ELSE "global"

\* the filter of the write run r is about to send: { _id: 'global' } in each of
\* updateWebsiteSyncStatus, incrementWebsiteErrorCount and updateLastSuccessfulSync
PendingFilter(r) ==
    CASE pc[r].at = "STATUS" -> "global"
      [] pc[r].at = "INCREMENT" -> "global"
      [] pc[r].at = "FINALIZING" -> "global"

\* the update of the write run r is about to send, applied to a document
PendingWrite(r, doc) ==
    CASE pc[r].at = "STATUS" ->
            WebsiteSyncStatusSet(doc, WebsiteIds[idx[r]],
                                 DateString(syncWindow[r].endDate),
                                 Len(sessions[r]), now)
      [] pc[r].at = "INCREMENT" -> WebsiteErrorCountInc(doc, WebsiteIds[idx[r]])
      [] pc[r].at = "FINALIZING" ->
            LastSuccessfulSyncSet(doc, syncStartTime[r], now)

\* the entry of the log for the write run r is about to send
PendingEntry(r) ==
    [run |-> r, at |-> pc[r].at,
     website |-> IF pc[r].at = "FINALIZING" THEN Null ELSE WebsiteIds[idx[r]]]

\* where run r goes after the website at index i: the next website, or finalization
RaceLoopFrom(r, i) ==
    IF i < Len(WebsiteIds)
    THEN /\ idx' = [idx EXCEPT ![r] = i + 1]
         /\ pc' = [pc EXCEPT ![r] = [at |-> "ANALYTICS", inserting |-> FALSE]]
    ELSE /\ idx' = idx
         /\ pc' = [pc EXCEPT ![r] = [at |-> "FINALIZING", inserting |-> FALSE]]

\* where run r goes after its write, whether the write was applied or was caught
AfterWrite(r, result) ==
    IF pc[r].at = "FINALIZING"
    THEN /\ pc' = [pc EXCEPT ![r] = [at |-> "DONE", inserting |-> FALSE]]
         /\ finalizeResult' = [finalizeResult EXCEPT ![r] = result]
         /\ UNCHANGED << idx, sessions >>
    ELSE /\ RaceLoopFrom(r, idx[r])
         /\ sessions' = [sessions EXCEPT ![r] = << >>]
         /\ UNCHANGED finalizeResult

\* the lists of sessions fetchAllSessions returns for a website in these runs
RaceSessions(websiteId) == {<< >>, << ApiSession("s1", websiteId) >>}

RaceInit ==
    /\ HostInit
    /\ now = StartDay * MsPerDay + StartHour * MsPerHour
    /\ ticks = 0
    /\ faults = 0
    /\ envRead = Null
    /\ pc = [r \in Runs |-> [at |-> "IDLE", inserting |-> FALSE]]
    /\ syncStartTime = [r \in Runs |-> Absent]
    /\ syncWindow = [r \in Runs |-> NoWindow]
    /\ systemconfigs = << >>
    /\ users = InitialUsers
    /\ currentToken = Null
    /\ idx = [r \in Runs |-> 1]
    /\ sessions = [r \in Runs |-> << >>]
    /\ sidx = 1
    /\ unmatchedSessions = << >>
    /\ page = 1
    /\ requests = NoRequests
    /\ authLog = << >>
    /\ errorsAtStart = [w \in WebsiteSet |-> 0]
    /\ written = << >>
    /\ outcome = [w \in WebsiteSet |-> "pending"]
    /\ failsSince = [w \in WebsiteSet |-> 0]
    /\ finalizeResult = [r \in Runs |-> "none"]
    /\ apiCalls = 0
    /\ phases = << >>
    /\ lastAdvance = [start |-> Absent, finish |-> Absent]

\* syncAllData is called for run r: syncStartTime, determineSyncWindow with the
\* default lookback and syncSessionIdsForWindow; either of the two may throw
RaceSyncAllData(r) ==
    /\ pc[r].at = "IDLE"
    /\ syncStartTime' = [syncStartTime EXCEPT ![r] = now]
    /\ \/ /\ Returns
          /\ LET window == DetermineSyncWindow(DocumentOf(systemconfigs, "global"),
                                               now, "")
                 synced == SyncSessionIdsForWindow(users, SessionTable, TRUE, {},
                                                   window.startDate, now)
             IN /\ syncWindow' = [syncWindow EXCEPT ![r] = window]
                /\ users' = synced.users
                /\ pc' = [pc EXCEPT ![r] =
                             [at |-> IF synced.thrown THEN "FAILED" ELSE "ANALYTICS",
                              inserting |-> FALSE]]
       \/ /\ Throws
          /\ pc' = [pc EXCEPT ![r] = [at |-> "FAILED", inserting |-> FALSE]]
          /\ UNCHANGED << syncWindow, users >>
    /\ UNCHANGED << host, now, ticks, envRead, systemconfigs, currentToken, idx, sessions,
                    sidx, unmatchedSessions, page, requests, authLog, errorsAtStart,
                    written, outcome, failsSince, finalizeResult, apiCalls, phases,
                    lastAdvance >>

\* run r syncs the website it is at, up to the write of its status: no session
\* found and continue, sessions fetched and applied to the users, or an error caught
RaceSyncWebsite(r) ==
    /\ pc[r].at = "ANALYTICS"
    /\ \/ /\ Returns
          /\ \E list \in RaceSessions(WebsiteIds[idx[r]]) :
                /\ users' = UpdateUsersAnalytics(users, list, 1, now)
                /\ sessions' = [sessions EXCEPT ![r] = list]
                /\ IF Len(list) = 0
                   THEN RaceLoopFrom(r, idx[r])
                   ELSE /\ pc' = [pc EXCEPT ![r] = [at |-> "STATUS",
                                                    inserting |-> FALSE]]
                        /\ UNCHANGED idx
       \/ /\ Throws
          /\ pc' = [pc EXCEPT ![r] = [at |-> "INCREMENT", inserting |-> FALSE]]
          /\ UNCHANGED << users, sessions, idx >>
    /\ UNCHANGED << host, now, ticks, envRead, syncStartTime, syncWindow, systemconfigs,
                    currentToken, sidx, unmatchedSessions, page, requests, authLog,
                    errorsAtStart, written, outcome, failsSince, finalizeResult,
                    apiCalls, phases, lastAdvance >>

\* collection.updateOne(filter, update, { upsert: true }) of run r reaches the
\* collection: the filter matches a document and the update is applied to it; or
\* it matches none and the upsert sets out to insert; or it inserts the document
\* it set out to insert; or another write has inserted one meanwhile, and the
\* index on _id rejects the insert with a duplicate key error, caught and logged
RaceUpdateOne(r) ==
    /\ pc[r].at \in {"STATUS", "INCREMENT", "FINALIZING"}
    /\ LET id == PendingFilter(r)
       IN \/ /\ HasDocument(systemconfigs, id)
             /\ ~pc[r].inserting
             /\ systemconfigs' =
                   Replaced(systemconfigs, id,
                            PendingWrite(r, DocumentOf(systemconfigs, id)))
             /\ written' = Append(written, PendingEntry(r))
             /\ AfterWrite(r, "stored")
          \/ /\ ~HasDocument(systemconfigs, id)
             /\ ~pc[r].inserting
             /\ pc' = [pc EXCEPT ![r].inserting = TRUE]
             /\ UNCHANGED << systemconfigs, written, idx, sessions, finalizeResult >>
          \/ /\ ~HasDocument(systemconfigs, id)
             /\ pc[r].inserting
             /\ systemconfigs' = Inserted(systemconfigs, id,
                                          PendingWrite(r, NoDocument))
             /\ written' = Append(written, PendingEntry(r))
             /\ AfterWrite(r, "stored")
          \/ /\ HasDocument(systemconfigs, id)
             /\ pc[r].inserting
             /\ UNCHANGED << systemconfigs, written >>
             /\ AfterWrite(r, "swallowed")
    /\ UNCHANGED << host, now, ticks, faults, envRead, syncStartTime, syncWindow, users,
                    currentToken, sidx, unmatchedSessions, page, requests, authLog,
                    errorsAtStart, outcome, failsSince, apiCalls, phases,
                    lastAdvance >>

\* the write of run r throws before it reaches the collection: caught and logged
RaceUpdateOneThrows(r) ==
    /\ pc[r].at \in {"STATUS", "INCREMENT", "FINALIZING"}
    /\ ~pc[r].inserting
    /\ Throws
    /\ AfterWrite(r, "swallowed")
    /\ UNCHANGED << host, now, ticks, envRead, syncStartTime, syncWindow, systemconfigs,
                    users, currentToken, sidx, unmatchedSessions, page, requests,
                    authLog, errorsAtStart, written, outcome, failsSince, apiCalls,
                    phases, lastAdvance >>

RaceNext ==
    \/ Tick
    \/ \E r \in Runs : RaceSyncAllData(r)
    \/ \E r \in Runs : RaceSyncWebsite(r)
    \/ \E r \in Runs : RaceUpdateOne(r)
    \/ \E r \in Runs : RaceUpdateOneThrows(r)

RaceSpec == RaceInit /\ [][RaceNext]_vars

\* ------------------------------------------- the websites of a new service
\* The values UMAMI_WEBSITE_IDS may have: not set, or a string of letters, commas
\* and spaces.
Characters == {"a", "b", ",", " "}

EnvStrings == UNION {[1..n -> Characters] : n \in 0..MaxEnvLen}

WebsiteIdsInit ==
    /\ websiteIdsStr \in {UnsetEnv} \cup {SetEnv(str) : str \in EnvStrings}
    /\ websiteIds = << >>
    /\ DatabaseInit
    /\ TriggerInit
    /\ LoggerInit
    /\ EngineInit

\* new UmamiService(): this.websiteIds = this.getWebsiteIds()
NewUmamiService ==
    /\ pc = "IDLE"
    /\ websiteIds' = GetWebsiteIds(websiteIdsStr)
    /\ pc' = "FETCH"
    /\ idx' = 1
    /\ UNCHANGED << websiteIdsStr, database, trigger, logged, now, ticks, faults, envRead,
                    syncStartTime,
                    syncWindow, systemconfigs, users, currentToken, sessions, sidx,
                    unmatchedSessions, page, requests, authLog, errorsAtStart,
                    written, outcome, failsSince, finalizeResult, apiCalls, phases,
                    lastAdvance >>

\* for (const websiteId of this.websiteIds): fetchAllSessions is called for the
\* website the loop is at
FetchForWebsiteId ==
    /\ pc = "FETCH"
    /\ idx <= Len(websiteIds)
    /\ apiCalls' = apiCalls + 1
    /\ idx' = idx + 1
    /\ UNCHANGED << host, now, ticks, faults, envRead, pc, syncStartTime,
                    syncWindow, systemconfigs, users, currentToken, sessions, sidx,
                    unmatchedSessions, page, requests, authLog, errorsAtStart,
                    written, outcome, failsSince, finalizeResult, phases,
                    lastAdvance >>

WebsiteIdsNext ==
    \/ NewUmamiService
    \/ FetchForWebsiteId

WebsiteIdsSpec == WebsiteIdsInit /\ [][WebsiteIdsNext]_vars

\* ------------------------------------------- the calls of DatabaseService
\* The values MONGODB may have when connect reads it: not set, empty, a string.
MongoUrls == {UnsetEnv, SetEnv(<< >>), SetEnv(<< "m" >>)}

\* static getInstance(): the instance is created by the first call; an instance
\* is known by the number of the call that created it
GetInstance ==
    /\ Len(calls) < MaxCalls
    /\ instance' = IF instance = Absent THEN Len(calls) + 1 ELSE instance
    /\ calls' = Append(calls, [op |-> "getInstance", returned |-> instance'])
    /\ UNCHANGED << websiteIdsStr, websiteIds, connection, trigger, logged, engine >>

\* connect() on the instance: MONGODB is read when no open connection is held,
\* and the connection that is created opens or fails to
Connect ==
    /\ Len(calls) < MaxCalls
    /\ instance # Absent
    /\ \E mongoUrl \in MongoUrls, opens \in BOOLEAN :
          LET result == ConnectOf(connection, mongoUrl, opens)
          IN /\ connection' = result.connection
             /\ calls' = Append(calls, [op |-> "connect", mongoUrl |-> mongoUrl,
                                        threw |-> result.threw,
                                        before |-> connection,
                                        after |-> result.connection])
    /\ UNCHANGED << websiteIdsStr, websiteIds, instance, trigger, logged, engine >>

\* disconnect() on the instance: close() of an open connection resolves or
\* rejects, close() of a connection that is not open resolves
Disconnect ==
    /\ Len(calls) < MaxCalls
    /\ instance # Absent
    /\ \E closes \in {TRUE} \cup (IF IsConnected(connection) THEN {FALSE} ELSE {}) :
          LET result == DisconnectOf(connection, closes)
          IN /\ connection' = result.connection
             /\ calls' = Append(calls, [op |-> "disconnect",
                                        threw |-> result.threw,
                                        before |-> connection,
                                        after |-> result.connection])
    /\ UNCHANGED << websiteIdsStr, websiteIds, instance, trigger, logged, engine >>

\* The server goes away: the readyState of the open connection is no longer 1.
ConnectionLost ==
    /\ IsConnected(connection)
    /\ connection' = Connection(0)
    /\ UNCHANGED << websiteIdsStr, websiteIds, instance, calls, trigger, logged, engine >>

DatabaseNext ==
    \/ GetInstance
    \/ Connect
    \/ Disconnect
    \/ ConnectionLost

DatabaseSpec == Init /\ [][DatabaseNext]_vars

\* ------------------------------------------- the invocations of timerTrigger
\* A step inside the try block throws: control goes to the catch block with the
\* error, which is known by the step.
ThrowsInTry(error) ==
    /\ handlerPc' = "CATCH"
    /\ completion' = Throw(error)
    /\ handlerLog' = Append(handlerLog, error)

\* The host calls timerTrigger: the outbound address is looked up, a failure of
\* which is logged, and let databaseService = null. The process and its
\* DatabaseService are the ones the invocation before left.
TimerFires ==
    /\ handlerPc \in {"IDLE", "FINISHED"}
    /\ invocations < MaxInvocations
    /\ invocations' = invocations + 1
    /\ handlerPc' = "LOAD_ENV"
    /\ databaseService' = Absent
    /\ completion' = Normal
    /\ handlerLog' = << >>
    /\ UNCHANGED << websiteIdsStr, websiteIds, database, logged, engine >>

\* await loadEnv(); logger = initializeLogger('azure')
LoadEnv ==
    /\ handlerPc = "LOAD_ENV"
    /\ \/ /\ handlerPc' = "CONNECT"
          /\ UNCHANGED << completion, handlerLog >>
       \/ ThrowsInTry("loadEnv")
    /\ UNCHANGED << websiteIdsStr, websiteIds, invocations, database, databaseService, logged,
                    engine >>

\* databaseService = DatabaseService.getInstance(); await databaseService.connect()
ConnectDatabase ==
    /\ handlerPc = "CONNECT"
    /\ instance' = IF instance = Absent THEN 1 ELSE instance
    /\ databaseService' = instance'
    /\ \E mongoUrl \in MongoUrls, opens \in BOOLEAN :
          LET result == ConnectOf(connection, mongoUrl, opens)
          IN /\ connection' = result.connection
             /\ IF result.threw
                THEN ThrowsInTry("connect")
                ELSE /\ handlerPc' = "TEST"
                     /\ handlerLog' = Append(handlerLog, "connected")
                     /\ UNCHANGED completion
    /\ UNCHANGED << websiteIdsStr, websiteIds, invocations, calls, logged, engine >>

\* await UmamiService.testConnections(): a failed login is caught inside, the
\* constructor of the adapter and the test of the source may throw
TestConnections ==
    /\ handlerPc = "TEST"
    /\ \/ /\ handlerPc' = "STATUS"
          /\ UNCHANGED << completion, handlerLog >>
       \/ ThrowsInTry("testConnections")
    /\ UNCHANGED << websiteIdsStr, websiteIds, invocations, database, databaseService, logged,
                    engine >>

\* await UmamiService.getSyncStatus(): it catches its errors and returns null
GetSyncStatus ==
    /\ handlerPc = "STATUS"
    /\ handlerPc' = "SYNC"
    /\ UNCHANGED << websiteIdsStr, websiteIds, invocations, database, databaseService,
                    completion, handlerLog, logged, engine >>

\* new UmamiService(); await umamiService.syncAllData(): the run resolves or
\* rejects
RunSyncAllData ==
    /\ handlerPc = "SYNC"
    /\ \/ /\ handlerPc' = "FINALLY"
          /\ UNCHANGED << completion, handlerLog >>
       \/ ThrowsInTry("syncAllData")
    /\ UNCHANGED << websiteIdsStr, websiteIds, invocations, database, databaseService, logged,
                    engine >>

\* The outcomes close() may have on the connection: it resolves, or, on an open
\* connection, rejects.
CloseOutcomes(conn) == {TRUE} \cup (IF IsConnected(conn) THEN {FALSE} ELSE {})

\* The catch block of the handler.
CatchBlock ==
    /\ handlerPc = "CATCH"
    /\ \E closes \in CloseOutcomes(connection) :
          LET result == CatchOf(databaseService, connection, completion.error, closes)
          IN /\ connection' = result.connection
             /\ completion' = result.completion
             /\ handlerLog' = handlerLog \o result.events
    /\ handlerPc' = "FINALLY"
    /\ UNCHANGED << websiteIdsStr, websiteIds, invocations, instance, calls, databaseService,
                    logged, engine >>

\* The finally block of the handler, after which the host has the completion of
\* the handler: the promise resolved, or rejected with an error.
FinallyBlock ==
    /\ handlerPc = "FINALLY"
    /\ \E closes \in CloseOutcomes(connection) :
          LET result == FinallyOf(databaseService, connection, completion, closes)
          IN /\ connection' = result.connection
             /\ completion' = result.completion
             /\ handlerLog' = handlerLog \o result.events
    /\ handlerPc' = "FINISHED"
    /\ UNCHANGED << websiteIdsStr, websiteIds, invocations, instance, calls, databaseService,
                    logged, engine >>

TriggerNext ==
    \/ TimerFires
    \/ LoadEnv
    \/ ConnectDatabase
    \/ TestConnections
    \/ GetSyncStatus
    \/ RunSyncAllData
    \/ CatchBlock
    \/ FinallyBlock
    \/ ConnectionLost

TriggerSpec == Init /\ [][TriggerNext]_vars

\* ------------------------------------------------ the calls of the Logger
\* The methods of Logger, each the level of the base logger it forwards to.
Levels == {"info", "error", "warn", "debug"}

\* The values a caller may give as metadata: none, null, an Error, an object, and
\* primitive values, falsy ones among them.
MetadataValues ==
    {NotGiven,
     JsValue("null", ""),
     JsValue("Error", "e"),
     JsValue("object", "o"),
     JsValue("number", "0"),
     JsValue("number", "42"),
     JsValue("string", ""),
     JsValue("string", "s"),
     JsValue("boolean", "false"),
     JsValue("boolean", "true")}

\* logger[level](msg, metadata): (msg, metadata) => formatLog(level, msg, metadata)
LoggerMethod(level) ==
    /\ Len(logged) < MaxLogCalls
    /\ \E msg \in {"m"}, metadata \in MetadataValues :
          logged' = Append(logged, [level |-> level, msg |-> msg,
                                    metadata |-> metadata,
                                    forwarded |-> FormatLog(level, msg, metadata)])
    /\ UNCHANGED << websiteIdsStr, websiteIds, database, trigger, engine >>

LoggerNext == \E level \in Levels : LoggerMethod(level)

LoggerSpec == Init /\ [][LoggerNext]_vars

\* ------------------------------------------- runs against any login response
\* authenticate against an API whose login response may carry no token:
\* response.data.token is then undefined, and is stored as it is
AuthenticateAnyResponse == AuthenticateWith({"token", Undefined})

TokenNext ==
    \/ Tick
    \/ SyncAllData
    \/ PlanWindow
    \/ SessionSync
    \/ AuthenticateAnyResponse
    \/ FetchAllSessions
    \/ UpdateUserAnalytics
    \/ UpdateWebsiteSyncStatus
    \/ IncrementWebsiteErrorCount
    \/ UpdateLastSuccessfulSync
    \/ Resolve
    \/ Reject

TokenSpec == Init /\ [][TokenNext]_vars

\* ------------------------------------------------------------- properties
\* The phases of a run that succeeds, in order.
RunOrder == << "PLANNING", "SESSION_SYNC", "ANALYTICS_SYNC", "FINALIZING", "DONE" >>

IsPrefix(s, t) == Len(s) <= Len(t) /\ \A i \in 1..Len(s) : s[i] = t[i]

\* The run failed, and phase is the one it was in when it failed.
FailedFrom(phase) ==
    /\ Len(phases) >= 2
    /\ phases[Len(phases)] = "FAILED"
    /\ phases[Len(phases) - 1] = phase

\* The websites whose fetch threw in this run.
FailedWebsites == {w \in WebsiteSet : outcome[w] \in {"failed", "failed, count lost"}}

\* The websites whose fetch and processing finished without an uncaught error.
SucceededWebsites ==
    {w \in WebsiteSet : outcome[w] \in {"empty", "synced", "synced, status lost"}}

\* C1, as stated: in a run whose session sync and authentication succeeded, a
\* website whose fetch throws leaves every other website processed, has its
\* errorCount one above what it was when the run started, and the run ends DONE
\* with lastSuccessfulSync advanced to the run's start.
C1_IsolationAsStated ==
    /\ FailedWebsites # {} => pc # "FAILED"
    /\ pc = "DONE" =>
         \A b \in FailedWebsites :
            /\ \A w \in WebsiteSet : outcome[w] # "pending"
            /\ ErrorCount(systemconfigs, b) = errorsAtStart[b] + 1
            /\ LastSuccessfulSync(systemconfigs) = syncStartTime

\* C1, amended: a website whose fetch throws never fails the run and leaves every
\* other website processed; its errorCount is one above what it was when the run
\* started unless the increment's own write failed (then it is unchanged), and
\* lastSuccessfulSync is the run's start unless the finalizing write failed.
C1_Isolation ==
    /\ FailedWebsites # {} => pc # "FAILED"
    /\ pc = "DONE" =>
         \A b \in FailedWebsites :
            /\ \A w \in WebsiteSet : outcome[w] # "pending"
            /\ outcome[b] = "failed" =>
                  ErrorCount(systemconfigs, b) = errorsAtStart[b] + 1
            /\ outcome[b] = "failed, count lost" =>
                  ErrorCount(systemconfigs, b) = errorsAtStart[b]
            /\ finalizeResult = "stored" =>
                  LastSuccessfulSync(systemconfigs) = syncStartTime

\* The first website's fetch threw, the second one was synced after it, the count
\* went up by one and the run advanced the watermark.
C1_Witness ==
    /\ pc = "DONE"
    /\ outcome["w1"] = "failed"
    /\ outcome["w2"] = "synced"
    /\ ErrorCount(systemconfigs, "w1") = errorsAtStart["w1"] + 1
    /\ systemconfigs.websiteSyncStatus["w2"].errorCount = 0
    /\ finalizeResult = "stored"
    /\ LastSuccessfulSync(systemconfigs) = syncStartTime

\* C2: a run that failed in planning or in session sync has changed no user, no
\* website status and no watermark, has sent nothing to the analytics API and
\* holds no token.
C2_FatalFailureWritesNothing ==
    (pc = "FAILED" /\ (FailedFrom("PLANNING") \/ FailedFrom("SESSION_SYNC"))) =>
        /\ written = NothingWritten
        /\ apiCalls = 0
        /\ currentToken = Null
        /\ \A w \in WebsiteSet : outcome[w] = "pending"
        /\ finalizeResult = "none"

\* A run after one that stored the watermark fails in session sync: the source is
\* unreachable.
C2_Witness ==
    /\ pc = "FAILED"
    /\ FailedFrom("SESSION_SYNC")
    /\ lastAdvance.start # Absent
    /\ written = NothingWritten
    /\ apiCalls = 0

\* C3: when a run has finalized, the stored lastSuccessfulSync is the instant taken
\* at the start of the run, whatever the clock shows at the write.
C3_WatermarkIsRunStart ==
    (pc = "DONE" /\ finalizeResult = "stored") =>
        /\ systemconfigs.lastSuccessfulSync = syncStartTime
        /\ systemconfigs.lastSuccessfulSync <= now

\* A run that took time: the clock at the write is past the stored instant.
C3_Witness ==
    /\ pc = "DONE"
    /\ finalizeResult = "stored"
    /\ now > syncStartTime
    /\ systemconfigs.lastSuccessfulSync = syncStartTime

\* C4: the window of a run planned after a run that stored the watermark starts
\* 12 hours before what that run stored, so never later than it.
C4_WindowMonotonicity ==
    (syncWindow # NoWindow /\ lastAdvance.start # Absent) =>
        /\ syncWindow.syncType = "incremental"
        /\ syncWindow.startDate = lastAdvance.start - 12 * MsPerHour
        /\ syncWindow.startDate <= lastAdvance.start

\* The second of two runs that store the watermark, planned.
C4_Witness ==
    /\ pc = "DONE"
    /\ finalizeResult = "stored"
    /\ lastAdvance.start # Absent
    /\ syncWindow.startDate = lastAdvance.start - 12 * MsPerHour

\* C5: the window of a run planned after a run that stored the watermark holds
\* every instant from that run's start to its finish.
C5_NoCoverageGap ==
    (syncWindow # NoWindow /\ lastAdvance.start # Absent) =>
        /\ syncWindow.startDate <= lastAdvance.start
        /\ syncWindow.endDate >= lastAdvance.finish

\* The earlier run took time, and the next window holds all of it.
C5_Witness ==
    /\ pc = "SESSION_SYNC"
    /\ lastAdvance.start # Absent
    /\ lastAdvance.finish > lastAdvance.start
    /\ syncWindow.startDate <= lastAdvance.start
    /\ syncWindow.endDate >= lastAdvance.finish

\* C6, as stated, in its part about the order of the window's ends: every window
\* the planner returns starts before it ends.
C6_StartBeforeEndAsStated ==
    syncWindow # NoWindow => syncWindow.startDate < syncWindow.endDate

\* C6, amended: the planner returns an initial window from now minus
\* INITIAL_SYNC_DAYS (7 when unset) to now exactly when no lastSuccessfulSync is
\* stored, and an incremental window from lastSuccessfulSync minus 12 hours to now
\* otherwise; it writes nothing; start < end in the incremental case, and in the
\* initial case when INITIAL_SYNC_DAYS is at least 1 (0 gives start = end).
C6_PlannerContract ==
    [][ (pc = "PLANNING" /\ pc' = "SESSION_SYNC") =>
          /\ syncWindow'.endDate = now
          /\ IF systemconfigs.exists /\ systemconfigs.lastSuccessfulSync # Absent
             THEN /\ syncWindow'.syncType = "incremental"
                  /\ syncWindow'.startDate =
                        systemconfigs.lastSuccessfulSync - 12 * MsPerHour
                  /\ syncWindow'.startDate < syncWindow'.endDate
             ELSE /\ syncWindow'.syncType = "initial"
                  /\ envRead' = "" => syncWindow'.startDate = now - 7 * MsPerDay
                  /\ envRead' = "1" => syncWindow'.startDate = now - MsPerDay
                  /\ envRead' = "0" => syncWindow'.startDate = now
                  /\ envRead' # "0" => syncWindow'.startDate < syncWindow'.endDate
          /\ systemconfigs' = systemconfigs
          /\ users' = users ]_vars

\* An initial window planned with INITIAL_SYNC_DAYS unset: seven days back.
C6_Witness ==
    /\ pc = "SESSION_SYNC"
    /\ envRead = ""
    /\ syncWindow.syncType = "initial"
    /\ syncWindow.startDate = syncWindow.endDate - 7 * MsPerDay

\* C7, as stated, for runs in which no call failed: when the run is done, every
\* website whose fetch and processing finished without an uncaught error, zero
\* records included, has a status with errorCount 0, sessionsProcessed the number
\* of records fetched, lastDaySynced the date of the window's end and lastSync the
\* time of a write of this run.
C7_StatusUpsertedAsStated ==
    (pc = "DONE" /\ faults = 0) =>
        \A w \in SucceededWebsites :
            LET status == systemconfigs.websiteSyncStatus[w]
            IN /\ status.errorCount = 0
               /\ status.sessionsProcessed \in 0..MaxRecords
               /\ outcome[w] = "empty" <=> status.sessionsProcessed = 0
               /\ status.lastDaySynced = DateString(syncWindow.endDate)
               /\ status.lastSync >= syncStartTime
               /\ status.lastSync <= now

\* C8, as stated, for behaviours in which at most one call failed: between runs,
\* each website's errorCount is the number of its failed syncs since its last
\* successful one.
C8_ErrorCountAsStated ==
    (pc = "IDLE" /\ faults <= 1) =>
        \A w \in WebsiteSet : ErrorCount(systemconfigs, w) = failsSince[w]

\* C9, as stated: a run that returns success has stored lastSuccessfulSync equal
\* to its start instant.
C9_SuccessStoresAsStated ==
    pc = "DONE" => LastSuccessfulSync(systemconfigs) = syncStartTime

\* C9, amended: a run that returns success has either stored lastSuccessfulSync
\* equal to its start instant, or its finalizing write failed, was logged and
\* swallowed, and the watermark is what it was before the run.
C9_SuccessStoresOrSwallows ==
    pc = "DONE" =>
        \/ /\ finalizeResult = "stored"
           /\ LastSuccessfulSync(systemconfigs) = syncStartTime
        \/ /\ finalizeResult = "swallowed"
           /\ ~written.watermark
           /\ LastSuccessfulSync(systemconfigs) = lastAdvance.start

\* A run returns success although its finalizing write failed: the watermark of the
\* run before it stays.
C9_Witness ==
    /\ pc = "DONE"
    /\ finalizeResult = "swallowed"
    /\ lastAdvance.start # Absent
    /\ LastSuccessfulSync(systemconfigs) = lastAdvance.start
    /\ syncStartTime > lastAdvance.start

\* The phase a position of the run belongs to.
PhaseOf(position) ==
    IF position \in {"AUTHENTICATE", "FETCH", "UPDATE", "STATUS", "INCREMENT"}
    THEN "ANALYTICS_SYNC"
    ELSE position

\* The run has entered its phases in order, none skipped, none entered twice, and
\* is in the last one entered; it has failed from one of the first n phases at most.
PhasesInOrder(n) ==
    /\ pc = "IDLE" <=> phases = << >>
    /\ phases # << >> => phases[Len(phases)] = PhaseOf(pc)
    /\ \/ IsPrefix(phases, RunOrder)
       \/ /\ Len(phases) >= 2
          /\ Len(phases) - 1 <= n
          /\ phases[Len(phases)] = "FAILED"
          /\ IsPrefix(SubSeq(phases, 1, Len(phases) - 1), RunOrder)

\* C10, as stated, in its part about the order of the phases: a run enters
\* PLANNING, SESSION_SYNC, ANALYTICS_SYNC, FINALIZING, DONE in that order, and
\* FAILED from PLANNING or SESSION_SYNC only.
C10_PhaseOrderAsStated == PhasesInOrder(2)

\* C10, amended: a run enters PLANNING, SESSION_SYNC, ANALYTICS_SYNC, FINALIZING,
\* DONE in that order, none skipped, none entered twice; it enters FAILED from
\* PLANNING, from SESSION_SYNC, or from ANALYTICS_SYNC when authentication fails,
\* before any website is fetched; once authentication has succeeded the run
\* reaches FINALIZING and DONE.
C10_PhaseOrder ==
    /\ [](PhasesInOrder(3))
    /\ [](FailedFrom("ANALYTICS_SYNC") =>
             /\ apiCalls = 1
             /\ currentToken = Null
             /\ \A w \in WebsiteSet : outcome[w] = "pending")
    /\ (pc \in {"FETCH", "UPDATE", "STATUS", "INCREMENT"}) ~> (pc = "FINALIZING")
    /\ (pc = "FINALIZING") ~> (pc = "DONE")

\* A run in which a website's fetch threw is done, all five phases entered in order.
C10_Witness ==
    /\ pc = "DONE"
    /\ phases = RunOrder
    /\ FailedWebsites # {}

\* C11: a run in which authenticate failed has failed from the analytics phase:
\* no page was requested for any website, no website's status or errorCount has
\* changed, the watermark is not advanced, and the error is thrown to the caller.
C11_AuthFailureIsRunLevel ==
    (authLog # << >> /\ authLog[Len(authLog)] = "failed") =>
        /\ pc = "FAILED"
        /\ FailedFrom("ANALYTICS_SYNC")
        /\ requests = NoRequests
        /\ \A w \in WebsiteSet :
              /\ outcome[w] = "pending"
              /\ ErrorCount(systemconfigs, w) = errorsAtStart[w]
        /\ ~written.status
        /\ ~written.watermark
        /\ finalizeResult = "none"

\* Authentication fails in a run after one that stored the watermark, which stays.
C11_Witness ==
    /\ pc = "FAILED"
    /\ authLog = << "failed" >>
    /\ lastAdvance.start # Absent
    /\ LastSuccessfulSync(systemconfigs) = lastAdvance.start

\* C12: outside the analytics phase the adapter holds no token: none before it,
\* none once it has ended normally, none after a failed authentication, none after
\* syncAllData has returned or thrown.
C12_TokenCleared ==
    PhaseOf(pc) # "ANALYTICS_SYNC" => currentToken = Null

\* The analytics phase of a run that got a token, and in which a website's fetch
\* threw, has ended: the token is gone.
C12_Witness ==
    /\ pc = "FINALIZING"
    /\ authLog = << "token" >>
    /\ FailedWebsites # {}
    /\ currentToken = Null

\* The page requests sent so far in this run, for any website.
RequestsSent ==
    UNION {{requests[w][i] : i \in 1..Len(requests[w])} : w \in WebsiteSet}

\* C13: a run calls authenticate once at most; a run that has sent a page request,
\* or has left the analytics phase for FINALIZING, has called it exactly once,
\* before its first page request, and every page request of the run, whatever the
\* website and the page, carries the token that call returned.
C13_AuthenticateOnce ==
    /\ Len(authLog) <= 1
    /\ (RequestsSent # {} \/ PhaseOf(pc) \in {"FINALIZING", "DONE"}) =>
          /\ Len(authLog) = 1
          /\ authLog[1] # "failed"
          /\ \A request \in RequestsSent : request.token = authLog[1]
    /\ currentToken # Null => (authLog # << >> /\ currentToken = authLog[1])

\* A run is done that asked for two pages of the first website and for a page of
\* the second one, after one call of authenticate.
C13_Witness ==
    /\ pc = "DONE"
    /\ authLog = << "token" >>
    /\ Len(requests["w1"]) >= 2
    /\ Len(requests["w2"]) >= 1
    /\ \A request \in RequestsSent : request.token = "token"

\* fetchAllSessions has returned for website w in this run: the loop has moved
\* past it, or is applying its sessions.
Returned(w) ==
    /\ outcome[w] # "failed"
    /\ requests[w] # << >>
    /\ \/ \E i \in 1..Len(WebsiteIds) : WebsiteIds[i] = w /\ i < idx
       \/ WebsiteIds[idx] = w /\ pc # "FETCH"

\* The pages of a log were requested in the order 1, 2, 3, ...
InPageOrder(log) ==
    \A k \in 1..Len(log) :
       /\ log[k].page = k
       /\ log[k].first = IF k = 1 THEN 1 ELSE log[k - 1].first + log[k - 1].count

\* C14 as stated: when fetchAllSessions returns, the last page it requested is the
\* first one with fewer records than the page size it asked for.
C14_StopsBelowRequestedAsStated ==
    \A w \in WebsiteSet :
       Returned(w) =>
          /\ requests[w][Len(requests[w])].count < API_PAGE_SIZE
          /\ \A k \in 1..(Len(requests[w]) - 1) : requests[w][k].count >= API_PAGE_SIZE

\* C14: fetchAllSessions requests pages 1, 2, 3, ... in order; it goes on after a
\* page whose record count is the pageSize that page's response reports, and
\* returns after the first page whose count differs from it, or after page 1000;
\* what it returns is the concatenation, in page order, of the records of the
\* pages fetched.
C14_PagesInOrder ==
    \A w \in WebsiteSet :
       LET log == requests[w]
       IN outcome[w] # "failed" =>
             /\ InPageOrder(log)
             /\ \A k \in 1..(Len(log) - 1) : log[k].count = log[k].pageSize
             /\ (pc = "FETCH" /\ WebsiteIds[idx] = w) =>
                   /\ \A k \in 1..Len(log) : log[k].count = log[k].pageSize
                   /\ page = Len(log) + 1
                   /\ Len(sessions) = NextFirst(log) - 1
             /\ Returned(w) =>
                   \/ log[Len(log)].count # log[Len(log)].pageSize
                   \/ Len(log) = PageLimit
             /\ (pc = "UPDATE" /\ WebsiteIds[idx] = w) =>
                   /\ Len(sessions) = NextFirst(log) - 1
                   /\ \A k \in 1..Len(log) : \A i \in 1..log[k].count :
                         sessions[log[k].first + i - 1] = ApiSession(<< k, i >>, w)

\* Pages of 100, 100 and 37 records, with a page size of 100, were fetched in
\* three requests, and the 237 records are returned.
C14_Witness ==
    /\ pc = "UPDATE"
    /\ Len(requests["w1"]) = 3
    /\ \A k \in 1..3 : /\ requests["w1"][k].pageSize = API_PAGE_SIZE
                       /\ requests["w1"][k].count = << 100, 100, 37 >>[k]
    /\ Len(sessions) = 237
    /\ sessions[237] = ApiSession(<< 3, 37 >>, "w1")

\* C15: fetchAllSessions sends 1000 page requests at most for a website; when each
\* of the 1000 pages was full, it returns the records of all of them.
C15_PaginationTerminates ==
    /\ page <= PageLimit
    /\ \A w \in WebsiteSet :
          /\ Len(requests[w]) <= PageLimit
          /\ (pc = "FETCH" /\ WebsiteIds[idx] = w) => Len(requests[w]) < PageLimit
          /\ ( /\ Len(requests[w]) = PageLimit
               /\ requests[w][PageLimit].count # Absent
               /\ requests[w][PageLimit].count = requests[w][PageLimit].pageSize ) =>
                /\ pc = "UPDATE"
                /\ WebsiteIds[idx] = w
                /\ outcome[w] = "pending"
                /\ Len(sessions) = NextFirst(requests[w]) - 1

\* The API has answered 1000 requests with a full page each, and the 1000 records
\* are returned.
C15_Witness ==
    /\ pc = "UPDATE"
    /\ Len(requests["w1"]) = PageLimit
    /\ \A k \in 1..PageLimit : requests["w1"][k].count = requests["w1"][k].pageSize
    /\ Len(sessions) = PageLimit
    /\ sessions[PageLimit] = ApiSession(<< PageLimit, 1 >>, "w1")

\* A page request for website w has failed in this run.
FetchFailed(w) ==
    \E k \in 1..Len(requests[w]) : requests[w][k].count = Absent

\* C16: once the request of page k of a website has failed, the run requests no
\* page of that website again, neither page k nor a later one; fetchAllSessions
\* throws, so that the records of pages 1..k-1 are not kept and the website counts
\* as failed; and no step of the run writes analytics of that website to a user.
C16_FailedPageNotRetried ==
    /\ [](\A w \in WebsiteSet :
            FetchFailed(w) =>
               /\ \A k \in 1..Len(requests[w]) :
                     /\ requests[w][k].page = k
                     /\ requests[w][k].count = Absent => k = Len(requests[w])
               /\ outcome[w] \in {"failed", "failed, count lost"}
               /\ pc \in {"FETCH", "UPDATE", "STATUS"} => WebsiteIds[idx] # w
               /\ (pc = "INCREMENT" /\ WebsiteIds[idx] = w) => sessions = << >>)
    /\ [][\A i \in 1..Len(users) :
             (PhaseOf(pc) = "ANALYTICS_SYNC" /\ users'[i] # users[i]) =>
                /\ ~FetchFailed(users'[i].umamiAnalytics.websiteId)
                /\ users'[i].umamiAnalytics.websiteId = WebsiteIds[idx]]_vars

\* Page 1 of the first website held the session of a user and page 2 failed: the
\* loop is over, and the user has no analytics.
C16_Witness ==
    /\ pc = "FINALIZING"
    /\ Len(requests["w1"]) = 2
    /\ requests["w1"][1].count = 1
    /\ requests["w1"][2].count = Absent
    /\ outcome["w1"] = "failed"
    /\ FindOne(users, "session_id", "s1") # 0
    /\ \A i \in 1..Len(users) : users[i].umamiAnalytics = NoAnalytics

\* The rows of the source table in the window of the run, and the ones among them
\* whose website is configured: the session batch the run is to apply.
WindowRows == SelectSeq(SessionTable, LAMBDA r : r.created_at >= syncWindow.startDate)
ConfiguredRows == SelectSeq(WindowRows, LAMBDA r : r.website_id \in WebsiteSet)

\* The rows of a batch whose lower-cased identity is the email of user i.
RowsOfUser(rows, i) ==
    SelectSeq(rows, LAMBDA r : ToLowerCase(r.distinct_id) = users[i].email)

\* Session sync has just returned, and the analytics phase is entered.
SessionSyncReturned == pc = "AUTHENTICATE" /\ syncWindow # NoWindow

\* C17 as stated: a run whose session batch is not empty enters the analytics
\* phase only if session sync has updated a user.
C17_ZeroMatchesFailRunAsStated ==
    (SessionSyncReturned /\ Len(ConfiguredRows) > 0) => written.users

\* C18 as stated: when the batch holds a row that updates a user and a row whose
\* identity is no user's, session sync returns with the rows that match applied:
\* each user of a row has the session id of the last of their rows.
C18_UnmatchedToleratedAsStated ==
    ( /\ SessionSyncReturned
      /\ \E i \in 1..Len(users) : RowsOfUser(ConfiguredRows, i) # << >>
      /\ \E k \in 1..Len(ConfiguredRows) :
            FindOne(users, "email", ToLowerCase(ConfiguredRows[k].distinct_id)) = 0 ) =>
       /\ written.users
       /\ \A i \in 1..Len(users) :
             LET mine == RowsOfUser(ConfiguredRows, i)
             IN mine # << >> => users[i].session_id = mine[Len(mine)].session_id

\* C19: a step of session sync in which the source returns no row leaves every
\* user as it is and enters the analytics phase; nothing is stored by it.
C19_EmptyBatchShortCircuit ==
    [][( /\ pc = "SESSION_SYNC"
         /\ pc' # pc
         /\ faults' = faults
         /\ GetSessionsCreatedAfter(SessionTable, syncWindow.startDate) = << >> ) =>
           /\ pc' = "AUTHENTICATE"
           /\ phases' = Append(phases, "ANALYTICS_SYNC")
           /\ users' = users
           /\ systemconfigs' = systemconfigs]_vars

\* A run whose source returned no row is done: it has authenticated, asked the API
\* for the sessions of both websites and stored the watermark, its own start.
C19_Witness ==
    /\ pc = "DONE"
    /\ GetSessionsCreatedAfter(SessionTable, syncWindow.startDate) = << >>
    /\ authLog = << "token" >>
    /\ \A w \in WebsiteSet : requests[w] # << >>
    /\ finalizeResult = "stored"
    /\ LastSuccessfulSync(systemconfigs) = syncStartTime

\* C20 as stated: once session sync has returned, a user none of whose rows in the
\* window is of a configured website is as before the run, and a user with such a
\* row has the session id of the last of them.
C20_ConfiguredRowsAppliedAsStated ==
    SessionSyncReturned =>
       \A i \in 1..Len(users) :
          LET mine == RowsOfUser(ConfiguredRows, i)
          IN IF mine = << >>
             THEN users[i] = InitialUsers[i]
             ELSE users[i].session_id = mine[Len(mine)].session_id

\* C21: the users collection holds the same documents, with the same identities,
\* in every state: the engine inserts none and deletes none, and of a document
\* only session_id, umamiAnalytics and updatedAt change.
C21_UsersNeitherCreatedNorDeleted ==
    /\ Len(users) = Len(InitialUsers)
    /\ \A i \in 1..Len(InitialUsers) :
          /\ DOMAIN users[i] = DOMAIN InitialUsers[i]
          /\ users[i].email = InitialUsers[i].email

\* The sessions of a website, one of a user and one of nobody, were all applied:
\* the user has the analytics of their session, and there are two users as before.
C21_Witness ==
    /\ pc = "STATUS"
    /\ faults = 0
    /\ \E k \in 1..Len(sessions) : sessions[k].id = "s2"
    /\ users[1].umamiAnalytics = [id |-> "s1", websiteId |-> "w1"]
    /\ users[1].updatedAt = now
    /\ Len(users) = 2

\* The analytics snapshot of every user: the documents without updatedAt.
Snapshot(us) ==
    [i \in 1..Len(us) |-> [email |-> us[i].email, session_id |-> us[i].session_id,
                           umamiAnalytics |-> us[i].umamiAnalytics]]

\* C22: when the loop over the same sessions of a website has run to its end, once
\* or again in a later run, and no update has failed, every user has the analytics
\* snapshot that one run of the loop gives.
C22_AnalyticsIdempotent ==
    (pc = "STATUS" /\ faults = 0) =>
        Snapshot(users) =
            Snapshot(UpdateUsersAnalytics(InitialUsers, sessions, 1, syncStartTime))

\* The loop has run twice, 13 hours apart: the second run has written the user
\* again, and the snapshot is the one of the first.
C22_Witness ==
    /\ pc = "STATUS"
    /\ faults = 0
    /\ ticks = 1
    /\ now > syncStartTime
    /\ users[1].umamiAnalytics = [id |-> "s1", websiteId |-> "w1"]
    /\ users[1].updatedAt = now

\* C23 as stated: a first run that has met no failure, on a source whose rows in
\* the window each match another user and an API with a session for each row, ends
\* with the session id and the analytics of each row on its user, the watermark
\* stored, and as many sessionsProcessed for the website as the API returned.
C23_InitialRunEndToEndAsStated ==
    ( /\ pc = "DONE"
      /\ faults = 0
      /\ syncWindow.syncType = "initial"
      /\ Len(GetSessionsCreatedAfter(MatchingTable, syncWindow.startDate))
            = Len(MatchingTable) ) =>
       /\ \A k \in 1..Len(MatchingTable) :
             LET i == FindOne(users, "email", ToLowerCase(MatchingTable[k].distinct_id))
             IN /\ i # 0
                /\ users[i].session_id = MatchingTable[k].session_id
                /\ users[i].umamiAnalytics.id = MatchingTable[k].session_id
       /\ systemconfigs.exists
       /\ LastSuccessfulSync(systemconfigs) = syncStartTime
       /\ systemconfigs.websiteSyncStatus["w1"].sessionsProcessed = Len(MatchingTable)

\* What the code does in that run: the watermark and the count are stored, and
\* the users are as they were.
EndToEndObserved ==
    ( /\ pc = "DONE"
      /\ faults = 0
      /\ Len(GetSessionsCreatedAfter(MatchingTable, syncWindow.startDate))
            = Len(MatchingTable) ) =>
       /\ users = InitialUsers
       /\ LastSuccessfulSync(systemconfigs) = syncStartTime
       /\ systemconfigs.websiteSyncStatus["w1"].sessionsProcessed = Len(MatchingTable)

\* C24: an update of a record that throws is caught inside the loop over the
\* website's sessions: the session is counted as unmatched, no user changes, and
\* the loop goes on to the next session, or to the status write after the last
\* one; when the loop is over every session was attempted, each one is applied
\* to a user or counted as unmatched, and the website has not failed.
C24_RecordFailureIsRecordScoped ==
    /\ [](pc \in {"UPDATE", "STATUS"} =>
            /\ outcome[WebsiteIds[idx]] = "pending"
            /\ Len(unmatchedSessions) <= Len(sessions)
            /\ pc = "STATUS" =>
                  /\ sidx = Len(sessions)
                  /\ \A k \in 1..Len(sessions) :
                        \/ \E j \in 1..Len(unmatchedSessions) :
                              unmatchedSessions[j] = sessions[k].id
                        \/ \E i \in 1..Len(users) :
                              users[i].umamiAnalytics.id = sessions[k].id)
    /\ [][(pc = "UPDATE" /\ faults' # faults) =>
             /\ unmatchedSessions' = Append(unmatchedSessions, sessions[sidx].id)
             /\ users' = users
             /\ sessions' = sessions
             /\ systemconfigs' = systemconfigs
             /\ outcome' = outcome
             /\ IF sidx < Len(sessions)
                THEN pc' = "UPDATE" /\ sidx' = sidx + 1
                ELSE pc' = "STATUS"]_vars

\* The update of the first of three sessions has thrown: it is counted as
\* unmatched, like the second, nobody's, and the third is applied to its user.
C24_Witness ==
    /\ pc = "STATUS"
    /\ ticks = 0
    /\ faults = 1
    /\ Len(sessions) = 3
    /\ sessions[1].id = "s1" /\ sessions[2].id = "s2" /\ sessions[3].id = "s1"
    /\ unmatchedSessions = << "s1", "s2" >>
    /\ users[1].umamiAnalytics.id = "s1"

\* In the loop over the sessions of the website, an update has thrown: a session
\* that is a user's is counted as unmatched.
UpdateFailed ==
    /\ pc \in {"UPDATE", "STATUS"}
    /\ \E j \in 1..Len(unmatchedSessions) :
          FindOne(users, "session_id", unmatchedSessions[j]) # 0

\* C25 as stated: when the turn of a website in which an update has thrown ends,
\* the error count of the website is one more than at the start of the run.
C25_UpdateFailureCountedAsStated ==
    [][(UpdateFailed /\ pc = "STATUS" /\ pc' # "STATUS") =>
          ErrorCount(systemconfigs', WebsiteIds[idx])
             = errorsAtStart[WebsiteIds[idx]] + 1]_vars

\* C25: an update that throws is not charged to the website: the step writes
\* nothing to systemconfigs and does not go to the catch of the outer loop; the
\* turn of the website ends with its status write, which sets the error count to
\* 0 and sessionsProcessed to the number of sessions fetched, or leaves the entry
\* as it is when the write fails; the loop then goes on to the next website.
C25_UpdateFailureNotCounted ==
    /\ [][(pc = "UPDATE" /\ faults' # faults) =>
             /\ pc' \in {"UPDATE", "STATUS"}
             /\ systemconfigs' = systemconfigs]_vars
    /\ [][(UpdateFailed /\ pc = "STATUS" /\ pc' # "STATUS") =>
             LET w == WebsiteIds[idx]
             IN /\ IF faults' = faults
                   THEN /\ ErrorCount(systemconfigs', w) = 0
                        /\ systemconfigs'.websiteSyncStatus[w].sessionsProcessed
                              = Len(sessions)
                        /\ outcome'[w] = "synced"
                   ELSE /\ systemconfigs' = systemconfigs
                        /\ outcome'[w] = "synced, status lost"
                /\ IF idx < Len(WebsiteIds)
                   THEN pc' = "FETCH" /\ idx' = idx + 1
                   ELSE pc' = "FINALIZING"]_vars

\* An earlier run has failed to fetch the first website; in this run the update
\* of its one session has thrown, its error count is back at 0, and the loop is
\* at the second website.
C25_Witness ==
    /\ pc = "FETCH"
    /\ idx = 2
    /\ outcome["w1"] = "synced"
    /\ errorsAtStart["w1"] = 1
    /\ ErrorCount(systemconfigs, "w1") = 0
    /\ systemconfigs.websiteSyncStatus["w1"].sessionsProcessed = 1
    /\ faults = 2
    /\ users[1].umamiAnalytics = NoAnalytics

\* The run has started on website j: a page of it was requested.
StartedOn(j) == requests[WebsiteIds[j]] # << >>

\* C26 as stated: when the run has started on a website, the status write or the
\* error-count increment of every website before it, in the configured order, has
\* completed; and the updates of a website's sessions go one at a time, in order.
C26_OneWebsiteAtATimeAsStated ==
    /\ \A j \in 1..Len(WebsiteIds) :
          StartedOn(j) =>
             \A i \in 1..(j - 1) :
                outcome[WebsiteIds[i]] \in
                   {"synced", "synced, status lost", "failed", "failed, count lost"}
    /\ pc = "UPDATE" => (sidx \in 1..Len(sessions) /\ StartedOn(idx))

\* What the code does: the websites are taken one at a time and in order, but the
\* turn of a website with no session ends without a write.
WebsitesInOrder ==
    /\ \A j \in 1..Len(WebsiteIds) :
          StartedOn(j) =>
             /\ j <= idx
             /\ \A i \in 1..(j - 1) : outcome[WebsiteIds[i]] # "pending"
    /\ \A j \in 1..Len(WebsiteIds) :
          j > idx => (~StartedOn(j) /\ outcome[WebsiteIds[j]] = "pending")
    /\ pc = "UPDATE" => (sidx \in 1..Len(sessions) /\ StartedOn(idx))

\* The run is at a website whose sessions are being fetched or applied: the point
\* at which the process may be stopped.
InFlight == pc \in {"FETCH", "UPDATE"}

\* The window a run would plan on the stores as they are, were it started one
\* clock advance from now, with the environment the planner of this run has read.
NextWindow ==
    DetermineSyncWindow(systemconfigs, now + TickHours * MsPerHour,
                        IF envRead = Null THEN "" ELSE envRead)

\* C27 as stated: while a website is in flight this run has written no status for
\* it and has not changed the watermark, and the window of the next run holds
\* the window of this one.
C27_CancellationSafeAsStated ==
    InFlight =>
       /\ outcome[WebsiteIds[idx]] = "pending"
       /\ ~written.watermark
       /\ NextWindow.startDate <= syncWindow.startDate
       /\ NextWindow.endDate >= syncWindow.endDate

\* C27: while a website is in flight this run has written no status for it and
\* has not changed the watermark; the status of a website is written only by the
\* step that ends its turn and the watermark only by the finalization; so the next
\* run, when there is a watermark, plans a window with the same start and a later
\* end, and when there is none, plans the initial lookback again from its own
\* start.
C27_CancellationSafe ==
    /\ [](InFlight =>
            /\ outcome[WebsiteIds[idx]] = "pending"
            /\ ~written.watermark
            /\ finalizeResult = "none"
            /\ NextWindow.endDate >= syncWindow.endDate
            /\ IF LastSuccessfulSync(systemconfigs) # Absent
               THEN /\ NextWindow.syncType = "incremental"
                    /\ NextWindow.startDate = syncWindow.startDate
               ELSE /\ NextWindow.syncType = "initial"
                    /\ syncWindow.syncType = "initial"
                    /\ NextWindow.endDate - NextWindow.startDate
                          = syncWindow.endDate - syncWindow.startDate)
    /\ [][/\ \A w \in WebsiteSet :
                systemconfigs'.websiteSyncStatus[w] # systemconfigs.websiteSyncStatus[w]
                   => (pc \in {"STATUS", "INCREMENT"} /\ WebsiteIds[idx] = w)
          /\ LastSuccessfulSync(systemconfigs') # LastSuccessfulSync(systemconfigs)
                   => pc = "FINALIZING"]_vars

\* An incremental run has written the status of the first website and is applying
\* the sessions of the second: the watermark is the one the run has planned from.
C27_Witness ==
    /\ pc = "UPDATE"
    /\ idx = 2
    /\ syncWindow.syncType = "incremental"
    /\ outcome["w1"] = "synced"
    /\ outcome["w2"] = "pending"
    /\ LastSuccessfulSync(systemconfigs) = lastAdvance.start
    /\ NextWindow.startDate = syncWindow.startDate

\* C29 as stated: an entry of websiteSyncStatus that is there has all of
\* lastSync, lastDaySynced, sessionsProcessed and errorCount.
C29_StatusEntriesCompleteAsStated ==
    \A w \in WebsiteSet :
       LET entry == systemconfigs.websiteSyncStatus[w]
       IN entry # NoStatus =>
             /\ entry.lastSync # Absent
             /\ entry.lastDaySynced # Absent
             /\ entry.sessionsProcessed # Absent
             /\ entry.errorCount # Absent

\* C29: an entry of websiteSyncStatus that is there has an errorCount, and has
\* either all of lastSync, lastDaySynced and sessionsProcessed, or none of them:
\* none when the entry was created by the increment of a failed sync and no status
\* write of the website has come since, and then errorCount is 1 at least.
C29_StatusEntriesCompleteOrCountOnly ==
    \A w \in WebsiteSet :
       LET entry == systemconfigs.websiteSyncStatus[w]
       IN entry # NoStatus =>
             /\ systemconfigs.exists
             /\ entry.errorCount \in Nat
             /\ \/ /\ entry.lastSync # Absent
                   /\ entry.lastDaySynced # Absent
                   /\ entry.sessionsProcessed # Absent
                \/ /\ entry.lastSync = Absent
                   /\ entry.lastDaySynced = Absent
                   /\ entry.sessionsProcessed = Absent
                   /\ entry.errorCount >= 1

\* The entry of the first website was created by a failed sync and has its error
\* count alone; the entry of the second was written by a sync and is complete.
C29_Witness ==
    /\ systemconfigs.websiteSyncStatus["w1"] = [NoStatus EXCEPT !.errorCount = 1]
    /\ systemconfigs.websiteSyncStatus["w2"].lastSync # Absent
    /\ systemconfigs.websiteSyncStatus["w2"].lastDaySynced # Absent
    /\ systemconfigs.websiteSyncStatus["w2"].sessionsProcessed = 1
    /\ systemconfigs.websiteSyncStatus["w2"].errorCount = 0

\* C28: the collection never holds more than one document, and once a write has
\* been applied it holds exactly one, the one whose _id is 'global', whatever the
\* order in which the writes of two overlapping runs reach it.
C28_AtMostOneWatermarkRecord ==
    /\ Len(systemconfigs) <= 1
    /\ written # << >> =>
          /\ Len(systemconfigs) = 1
          /\ systemconfigs[1].id = "global"
          /\ systemconfigs[1].doc.exists

\* Both runs found the collection empty and set out to insert; one of them has
\* inserted the document, the other is still about to.
C28_Witness ==
    /\ Len(written) = 1
    /\ Len(systemconfigs) = 1
    /\ \E r \in Runs : pc[r].inserting /\ written[1].run # r

\* the writes of a kind, to a website or to the watermark, in the log
WritesAt(kind, w) ==
    {i \in 1..Len(written) : written[i].at = kind /\ written[i].website = w}

LastOf(indices) == CHOOSE i \in indices : \A j \in indices : j <= i

\* C30: the writes of two overlapping runs are applied in the order they reach the
\* collection, none of them guarded. The watermark is the start of the run whose
\* finalization was applied last, be it earlier than the one stored before; and the
\* error count of a website is the number of increments applied since the last
\* status write of the website, by whichever run.
C30_LastWriterWins ==
    LET doc == DocumentOf(systemconfigs, "global")
        stored == WritesAt("FINALIZING", Null)
    IN /\ doc.lastSuccessfulSync =
             IF stored = {} THEN Absent
             ELSE syncStartTime[written[LastOf(stored)].run]
       /\ \A w \in WebsiteSet :
             LET statuses == WritesAt("STATUS", w)
                 counted == {i \in WritesAt("INCREMENT", w) :
                                statuses = {} \/ i > LastOf(statuses)}
             IN doc.websiteSyncStatus[w].errorCount =
                   IF statuses = {} /\ counted = {} THEN Absent
                   ELSE Cardinality(counted)

\* The run that started later has stored its watermark, and the run that started
\* first has then stored its own, which is earlier; and the first run's increment
\* of a website's error count has been reset by the other run's status write.
C30_Witness ==
    /\ \E i, j \in WritesAt("FINALIZING", Null) :
          /\ i < j
          /\ j = LastOf(WritesAt("FINALIZING", Null))
          /\ syncStartTime[written[j].run] < syncStartTime[written[i].run]
          /\ DocumentOf(systemconfigs, "global").lastSuccessfulSync
                = syncStartTime[written[j].run]
    /\ \E w \in WebsiteSet :
          \E i \in WritesAt("INCREMENT", w), j \in WritesAt("STATUS", w) :
             /\ i < j
             /\ written[i].run # written[j].run
             /\ DocumentOf(systemconfigs, "global").websiteSyncStatus[w].errorCount = 0

\* the positions of str where an item begins: a character that is no comma and
\* no space, with nothing but spaces between it and the comma before it
ItemStarts(str) ==
    {i \in 1..Len(str) :
        /\ str[i] \notin {",", " "}
        /\ \A j \in 1..(i - 1) :
              (\A m \in j..(i - 1) : str[m] # ",") => str[j] = " "}

\* the position where the item that begins at i ends: the last character that is
\* no space before the next comma
ItemEnd(str, i) ==
    LET inItem == {j \in i..Len(str) :
                      /\ str[j] # " "
                      /\ \A m \in i..j : str[m] # ","}
    IN CHOOSE j \in inItem : \A m \in inItem : m <= j

\* the items of a comma-separated string, without the spaces around them, in the
\* order of the string
ItemsOf(str) ==
    LET starts == ItemStarts(str)
        nth(k) == CHOOSE i \in starts : Cardinality({j \in starts : j < i}) = k - 1
    IN [k \in 1..Cardinality(starts) |-> SubSeq(str, nth(k), ItemEnd(str, nth(k)))]

\* C31: the websites of a service are the items of UMAMI_WEBSITE_IDS between its
\* commas, in their order, without the spaces around them and without the empty
\* ones; none when the variable is not set or is empty; and the loop fetches for
\* each of them once at most, so for none when there is none.
C31_WebsiteIdsAsConfigured ==
    pc = "FETCH" =>
       /\ websiteIds = IF websiteIdsStr.defined THEN ItemsOf(websiteIdsStr.value)
                       ELSE << >>
       /\ (~websiteIdsStr.defined \/ websiteIdsStr.value = << >>) =>
             websiteIds = << >>
       /\ \A k \in 1..Len(websiteIds) :
             /\ websiteIds[k] # << >>
             /\ \A i \in 1..Len(websiteIds[k]) : websiteIds[k][i] # ","
             /\ websiteIds[k][1] # " "
             /\ websiteIds[k][Len(websiteIds[k])] # " "
       /\ apiCalls = idx - 1
       /\ apiCalls <= Len(websiteIds)

\* "a ,,b" has given the websites a and b, in this order, and the loop has
\* fetched for both.
C31_Witness ==
    /\ websiteIdsStr = SetEnv(<< "a", " ", ",", ",", "b" >>)
    /\ websiteIds = << << "a" >>, << "b" >> >>
    /\ apiCalls = 2

\* the calls of an operation in the history
CallsOf(op) == {i \in 1..Len(calls) : calls[i].op = op}

\* getInstance returns the same instance on every call.
SameInstance ==
    \A i, j \in CallsOf("getInstance") :
       calls[i].returned # Absent /\ calls[i].returned = calls[j].returned

\* disconnect on a service that is not connected completes and leaves it so.
DisconnectWhenNotConnected ==
    \A i \in CallsOf("disconnect") :
       ~IsConnected(calls[i].before) =>
          ~calls[i].threw /\ calls[i].after = NoConnection

LatestSessionId(rows) ==
    LET last == CHOOSE k \in 1..Len(rows) :
                    \A m \in 1..Len(rows) : rows[m].created_at <= rows[k].created_at
    IN rows[last].session_id

\* C33 as stated: once a session sync in which no update threw has returned, each
\* user whose identity is on a row of the batch has the session id of the row of
\* theirs that was created last.
C33_LatestSessionWinsAsStated ==
    SessionSyncReturned =>
       \A i \in 1..Len(users) :
          RowsOfUser(ConfiguredRows, i) # << >> =>
             users[i].session_id = LatestSessionId(RowsOfUser(ConfiguredRows, i))

\* updateUserSessionsSequential, were it handed the batch: the rows come in
\* ascending order of creation and are applied in that order, so each user of a row
\* ends with the session id of the row of theirs that was created last.
LatestSessionWinsOnceApplied ==
    LET applied == UpdateUserSessionsSequential(users, ConfiguredRows, 1, {}, now).users
    IN \A i \in 1..Len(users) :
          RowsOfUser(ConfiguredRows, i) # << >> =>
             applied[i].session_id = LatestSessionId(RowsOfUser(ConfiguredRows, i))

C35_WatermarkNeverGoesBack ==
    [][ /\ LastSuccessfulSync(systemconfigs') >= LastSuccessfulSync(systemconfigs)
        /\ LastSuccessfulSync(systemconfigs) # Absent =>
              LastSuccessfulSync(systemconfigs') # Absent ]_vars

\* A run has stored a watermark later than the one the run before it had stored.
C35_Witness ==
    /\ pc = "DONE"
    /\ finalizeResult = "stored"
    /\ lastAdvance.start # Absent
    /\ LastSuccessfulSync(systemconfigs) > lastAdvance.start

\* the instants of the watermark in a document
Watermark(doc) ==
    << doc.lastSuccessfulSync, doc.lastSessionSync, doc.lastAnalyticsSync >>

\* C36: a step that changes the document is one of the three writes. The status
\* write and the increment for a website leave the status of every other website
\* and the watermark as they are; the increment leaves also lastSync,
\* lastDaySynced and sessionsProcessed of its website; the finalizing write leaves
\* every status as it is.
C36_WritesKeepTheirFrame ==
    [][ systemconfigs' # systemconfigs =>
          /\ pc \in {"STATUS", "INCREMENT", "FINALIZING"}
          /\ pc \in {"STATUS", "INCREMENT"} =>
                /\ \A w \in WebsiteSet \ {WebsiteIds[idx]} :
                      systemconfigs'.websiteSyncStatus[w]
                         = systemconfigs.websiteSyncStatus[w]
                /\ Watermark(systemconfigs') = Watermark(systemconfigs)
          /\ pc = "INCREMENT" =>
                LET before == systemconfigs.websiteSyncStatus[WebsiteIds[idx]]
                    after == systemconfigs'.websiteSyncStatus[WebsiteIds[idx]]
                IN /\ after.lastSync = before.lastSync
                   /\ after.lastDaySynced = before.lastDaySynced
                   /\ after.sessionsProcessed = before.sessionsProcessed
          /\ pc = "FINALIZING" =>
                systemconfigs'.websiteSyncStatus = systemconfigs.websiteSyncStatus
      ]_vars

\* A run has stored the watermark after the status of the first website and, for
\* the second, an increment on the status an earlier run had written: the three
\* are there side by side.
C36_Witness ==
    /\ pc = "DONE"
    /\ finalizeResult = "stored"
    /\ LastSuccessfulSync(systemconfigs) = syncStartTime
    /\ systemconfigs.websiteSyncStatus["w1"].lastSync # Absent
    /\ systemconfigs.websiteSyncStatus["w1"].errorCount = 0
    /\ systemconfigs.websiteSyncStatus["w2"].lastSync # Absent
    /\ systemconfigs.websiteSyncStatus["w2"].errorCount = 1

\* the adapter holds a token
HoldsToken == currentToken \notin {Null, Undefined, ""}

\* a page request is sent in this step
RequestSent == \E w \in WebsiteSet : Len(requests'[w]) > Len(requests[w])

\* C37: a page request is sent only while the adapter holds a token, the one the
\* authenticate of the run has stored and clearToken has not yet taken away, and
\* it carries that token; a fetch attempted while the adapter holds none fails the
\* website without a request. Outside the analytics phase no token is held.
C37_NoRequestWithoutToken ==
    /\ [](PhaseOf(pc) # "ANALYTICS_SYNC" => currentToken = Null)
    /\ [][ /\ RequestSent =>
                /\ HoldsToken
                /\ authLog # << >>
                /\ authLog[Len(authLog)] = currentToken
                /\ apiCalls' = apiCalls + 1
                /\ LET log == requests'[WebsiteIds[idx]]
                   IN log[Len(log)].token = currentToken
           /\ (pc = "FETCH" /\ ~HoldsToken /\ pc' # pc) =>
                /\ ~RequestSent
                /\ requests' = requests
                /\ apiCalls' = apiCalls
                /\ pc' = "INCREMENT"
                /\ outcome'[WebsiteIds[idx]] = "failed" ]_vars

\* The login response carried no token: the fetch for the first website has failed
\* and the run has gone on to the second, with no page request sent.
C37_Witness ==
    /\ authLog = << Undefined >>
    /\ outcome["w1"] \in {"failed", "failed, count lost"}
    /\ idx = 2
    /\ pc = "FETCH"
    /\ \A w \in WebsiteSet : requests[w] = << >>
    /\ apiCalls = 1


\* C38: every run terminates. Each external call of a run returns or throws, and the
\* steps of a run are taken as long as one is due; then a run that has started,
\* whatever position it is at, reaches DONE or FAILED: no loop over the websites,
\* over the pages or over the sessions goes on for ever.
C38_EveryRunTerminates == (pc # "IDLE") ~> (pc \in {"DONE", "FAILED"})

\* A run has ended DONE having looked at every website: one fetched and applied a
\* session, another failed.
C38_Witness ==
    /\ pc = "DONE"
    /\ idx = Len(WebsiteIds)
    /\ \E w \in WebsiteSet : outcome[w] = "synced"
    /\ \E w \in WebsiteSet : outcome[w] \in {"failed", "failed, count lost"}
    /\ apiCalls >= 3


\* The errors the steps of the try block throw.
StepErrors == {"loadEnv", "connect", "testConnections", "syncAllData"}

\* The error a step of the try block threw in this invocation, if one did.
ThrownInTry ==
    IF \E i \in 1..Len(handlerLog) : handlerLog[i] \in StepErrors
    THEN handlerLog[CHOOSE i \in 1..Len(handlerLog) : handlerLog[i] \in StepErrors]
    ELSE NoError

\* connect returned in this invocation.
HasConnected == \E i \in 1..Len(handlerLog) : handlerLog[i] = "connected"

ForwardedAsStated(call) ==
    LET m == call.metadata
    IN CASE m = NotGiven -> {BaseCall1(call.level, call.msg)}
         [] m.type = "Error" -> {BaseCall2(call.level, "error", m, call.msg)}
         [] m.type = "object" -> {BaseCall2(call.level, "", m, call.msg)}
         [] m.type \in {"number", "string", "boolean"} ->
                {BaseCall2(call.level, "value", m, call.msg)}
         [] OTHER -> {BaseCall1(call.level, call.msg),
                      BaseCall2(call.level, "value", m, call.msg)}

\* C40: each call of a Logger method forwards exactly one call to the base logger,
\* of the same level: (msg) when no metadata is given, ({error: e}, msg) for an
\* Error, (metadata, msg) for any other object, ({value: v}, msg) for a primitive
\* value v.
C40_LoggerForwardsAsStated ==
    \A i \in 1..Len(logged) :
        /\ Len(logged[i].forwarded) = 1
        /\ logged[i].forwarded[1] \in ForwardedAsStated(logged[i])

====
